---------------------------- MODULE Spec2Model ----------------------------
(***************************************************************************)
(* A model of the kinetikos entrope numerical core: the causal             *)
(* state-vector pipeline of src/src/lib/indicator.ts, the particle-filter   *)
(* orchestrator of the causal engine, the particle filter and the          *)
(* recomputation effect of the page.                                       *)
(*                                                                         *)
(* Numbers.  A JavaScript number is modelled by a pair <<n, d>>:           *)
(*   d > 0   the finite rational n/d, in lowest terms;                      *)
(*   d = 0   <<0,0>> is NaN, <<1,0>> is +Infinity, <<-1,0>> is -Infinity;   *)
(*   d < 0   <<0,-1>> is null.                                              *)
(* Arithmetic on finite values is exact; a division by zero, or an         *)
(* operation on NaN or an infinity, gives what IEEE-754 gives.  The         *)
(* irrational functions (log2, cube root, square root) are rational        *)
(* tables, as a double is a rational approximation of them too.            *)
(***************************************************************************)
EXTENDS Integers, Sequences, FiniteSets, TLC

VARIABLES
    \* the state-vector pipeline of indicator.ts, named as its caller
    \* (page.tsx, runCalculations) names them
    rawMarketData,      \* the observations: a sequence of [price, volume]
    indicatorOptions,   \* the IndicatorOptions in force
    stateVectorData,    \* calculateStateVector(rawMarketData, indicatorOptions)
    \* calculateTemperature on its own
    entropyData,            \* its input: a sequence of [entropy, volume, temperature]
    temperatureData,        \* the result of calculateTemperature (lines 291-334)
    legacyTemperatureData,  \* the result of the second definition (lines 688-721)
    \* the page (page.tsx); its rawMarketData is the variable above
    controlState,       \* the asset and the indicator settings chosen
    calculatedParams,   \* <<the parameters published>>, or <<>> for null
    analysisResult,     \* <<the analysis displayed>>, or <<>> for null
    isLoadingData, isCalculating, isAnalysisLoading,
    timers,             \* the debounce timers set so far, each with the data
                        \* and settings its runCalculations closes over
    debounceCleanup,    \* the timer the effect's cleanup will clear, 0 if none
    fetches,            \* the market-data requests in flight
    analyses,           \* the generateMarketAnalysis requests in flight
    userActions,        \* how many times the user has acted
    toast,              \* the title of the last toast shown, "none" if none
    \* the particle filter (particle-filter.ts)
    pfOptions,          \* its ParticleFilterOptions
    particles,          \* its particles: a sequence of [state, weight]
    filterSteps,        \* how many times predict or update has run
    lastCall,           \* the last call of predict or update: its arguments,
                        \* the particles it found and the indices its
                        \* resampling selected; <<>> before any call
    \* calculateCausalRollingEntropy on its own
    entropyInput,       \* its series: a sequence of velocities, null or a number
    entropyWindowSize,  \* its entropyWindow
    entropyOutput,      \* its result: one entropy, or null, per element
    entropyBins,        \* the number of histogram bins built for each element
    \* calculateCausalStateVector (the causal engine); its particle filter
    \* is the one above
    causalOptions,      \* its options
    priceHistory,       \* the prices pushed so far
    results,            \* the state vectors of the observations processed
    lusolveTakesMatrix, \* whether the build's math.lusolve solves for a
                        \* right-hand side of several columns
    \* the construction of a ParticleFilter from a covariance (statistics.ts)
    covariance,         \* the processNoiseCov handed to the constructor
    constructed,        \* what the constructor did: "pending", "created", or
                        \* the name of the error it threw
    \* an EmergentMindHMM (part_007)
    nStates, nMix,      \* its numbers of states and of mixture components
    params,             \* its HMMParameters, <<>> for null
    maxIter,            \* the cap given to fit
    hmmData,            \* the data given to fit
    iteration,          \* how many passes of the loop of fit have run
    previousLogLikelihood,  \* the variable of that name in fit
    fitState,           \* "constructed", "fitting", "returned" or "threw"
    fitResult,          \* what fit returned, null before it returns
    predicted,          \* what predict_proba did last: the error thrown
                        \* ("none" when it returned) and the gamma returned
    mathCovDefined,     \* whether the build's mathjs has a function cov
    \* findOptimalHMM (model-selection.ts)
    k_range,            \* the candidate numbers of states
    selectionData,      \* the training data
    candidate,          \* how many candidates the loop has trained
    bestModel,          \* the best model so far, as [nStates, nMix]; <<>> for null
    bestK, bestBic,     \* its number of states and its score
    scored,             \* the candidates scored: [k, logLikelihood, bic] each
    fitReturned,        \* what fit returned for each candidate trained
    selection,          \* "running", "returned", or the error thrown
    bicScore,           \* the last application of calculateBIC, <<>> if none
    \* a RegimeClassifier (indicator.ts)
    historicalData,     \* the points it kept
    sortedValues,       \* per dimension, their values in ascending order
    percentileRank,     \* the last getPercentileRank: [key, value, rank]
    \* the two causal smoothers on one series
    smootherData,       \* the observations so far
    smootherOptions,    \* [windowSize, polynomialOrder]
    smoothedSeries,     \* savitzkyGolayCausal of them (indicator.ts)
    causalDerivative,   \* calculateCausalSgDerivative of their prices,
                        \* <<>> for null (causal-indicator.ts)
    \* the coefficient caches of the two smoothers
    sgCoeffsCache,          \* the Map of that name of indicator.ts
    causalSgCoeffsCache,    \* the Map sgCoeffsCache of causal-indicator.ts
    cacheSets,              \* the calls of Map.set so far: <<file, key>> each
    coeffsReturned,         \* what getCausalSgCoeffs returned last
    cacheCalls              \* how many times getCausalSgCoeffs was called

pipelineVars == <<rawMarketData, stateVectorData>>
temperatureVars == <<entropyData, temperatureData, legacyTemperatureData>>
pageVars ==
    <<controlState, calculatedParams, analysisResult, isLoadingData,
      isCalculating, isAnalysisLoading, timers, debounceCleanup, fetches,
      analyses, userActions, toast>>
filterVars == <<pfOptions, particles, filterSteps, lastCall>>
entropyVars == <<entropyInput, entropyWindowSize, entropyOutput, entropyBins>>
causalVars == <<causalOptions, priceHistory, results, lusolveTakesMatrix>>
choleskyVars == <<covariance, constructed>>
hmmVars ==
    <<nStates, nMix, params, maxIter, hmmData, iteration, previousLogLikelihood,
      fitState, fitResult, predicted, mathCovDefined>>
selectionVars ==
    <<k_range, selectionData, candidate, bestModel, bestK, bestBic, scored,
      fitReturned, selection, bicScore>>
classifierVars == <<historicalData, sortedValues, percentileRank>>
cacheVars ==
    <<sgCoeffsCache, causalSgCoeffsCache, cacheSets, coeffsReturned, cacheCalls>>
smootherVars ==
    <<smootherData, smootherOptions, smoothedSeries, causalDerivative, cacheVars>>
statisticsVars ==
    <<choleskyVars, hmmVars, selectionVars, classifierVars, smootherVars>>
vars ==
    <<indicatorOptions, pipelineVars, temperatureVars, pageVars, filterVars,
      entropyVars, causalVars, statisticsVars>>

\* ------------------------------------------------------------- numbers

NaN    == <<0, 0>>
PosInf == <<1, 0>>
NegInf == <<-1, 0>>
Null   == <<0, -1>>

IAbs(a) == IF a < 0 THEN -a ELSE a

RECURSIVE GCD(_, _)
GCD(a, b) == IF b = 0 THEN a ELSE GCD(b, a % b)

\* The rational n/d (d # 0) in lowest terms with a positive denominator.
Norm(n, d) ==
    LET g == GCD(IAbs(n), IAbs(d))
        s == IF d < 0 THEN -1 ELSE 1
    IN  <<(s * n) \div g, (s * d) \div g>>

R(n) == <<n, 1>>
Q(n, d) == Norm(n, d)

IsNull(x) == x[2] < 0
IsNaN(x)  == x = NaN
IsInf(x)  == x[2] = 0 /\ x[1] # 0
\* typeof x === 'number' && isFinite(x)
IsFin(x)  == x[2] > 0
\* x is a JavaScript number (finite or not), not null

Sign(x) == IF x[1] > 0 THEN 1 ELSE IF x[1] < 0 THEN -1 ELSE 0

RNeg(x) == IF IsNaN(x) THEN NaN ELSE <<-x[1], x[2]>>

RAdd(x, y) ==
    IF IsNaN(x) \/ IsNaN(y) THEN NaN
    ELSE IF IsInf(x) /\ IsInf(y) THEN (IF x = y THEN x ELSE NaN)
    ELSE IF IsInf(x) THEN x
    ELSE IF IsInf(y) THEN y
    ELSE LET g == GCD(x[2], y[2])
         IN  Norm(x[1] * (y[2] \div g) + y[1] * (x[2] \div g),
                  (x[2] \div g) * y[2])

RSub(x, y) == RAdd(x, RNeg(y))

RMul(x, y) ==
    IF IsNaN(x) \/ IsNaN(y) THEN NaN
    ELSE IF IsInf(x) \/ IsInf(y)
         THEN (IF Sign(x) * Sign(y) = 0 THEN NaN ELSE <<Sign(x) * Sign(y), 0>>)
    ELSE LET g1 == GCD(IAbs(x[1]), y[2])
             g2 == GCD(IAbs(y[1]), x[2])
         IN  Norm((x[1] \div g1) * (y[1] \div g2),
                  (x[2] \div g2) * (y[2] \div g1))

RDiv(x, y) ==
    IF IsNaN(x) \/ IsNaN(y) THEN NaN
    ELSE IF IsInf(x) THEN (IF IsInf(y) THEN NaN
                           ELSE <<Sign(x) * (IF Sign(y) < 0 THEN -1 ELSE 1), 0>>)
    ELSE IF IsInf(y) THEN R(0)
    ELSE IF y[1] = 0 THEN (IF x[1] = 0 THEN NaN ELSE <<Sign(x), 0>>)
    ELSE RMul(x, IF y[1] < 0 THEN <<-y[2], -y[1]>> ELSE <<y[2], y[1]>>)

\* x < y on numbers; every comparison with NaN is false.
RLt(x, y) ==
    IF IsNaN(x) \/ IsNaN(y) THEN FALSE
    ELSE IF IsInf(x) \/ IsInf(y)
         THEN (IF IsInf(x) /\ IsInf(y) THEN x[1] < y[1]
               ELSE IF IsInf(x) THEN x[1] < 0
               ELSE y[1] > 0)
    ELSE x[1] * y[2] < y[1] * x[2]

RGt(x, y) == RLt(y, x)
RLe(x, y) == ~IsNaN(x) /\ ~IsNaN(y) /\ ~RLt(y, x)

\* Math.abs
RAbs(x) == IF IsNaN(x) THEN NaN ELSE <<IAbs(x[1]), x[2]>>

\* Math.pow(x, 2)
RSq(x) == RMul(x, x)

\* b \div 10^e without forming 10^e (1e-10 has no 32-bit denominator).
RECURSIVE DivPow10(_, _)
DivPow10(b, e) == IF e = 0 \/ b = 0 THEN b ELSE DivPow10(b \div 10, e - 1)

\* x > 10^(-e) for a number x: n/d > 1/10^e  iff  n > d \div 10^e.
GtTenTo(x, e) ==
    IF IsNaN(x) THEN FALSE
    ELSE IF IsInf(x) THEN x[1] > 0
    ELSE x[1] > DivPow10(x[2], e)

\* ceil(b / 10^e), again without forming 10^e.
RECURSIVE CeilDivPow10(_, _)
CeilDivPow10(b, e) ==
    IF e = 0 \/ b = 0 THEN b ELSE CeilDivPow10(-((-b) \div 10), e - 1)

\* x < 10^(-e) for a number x: n/d < 1/10^e  iff  n < ceil(d / 10^e).
LtTenTo(x, e) ==
    IF IsNaN(x) THEN FALSE
    ELSE IF IsInf(x) THEN x[1] < 0
    ELSE x[1] < CeilDivPow10(x[2], e)

\* Math.floor and Math.ceil of a finite number, as integers.
IFloor(x) == x[1] \div x[2]
ICeil(x)  == -((-x[1]) \div x[2])

\* The sequence f, evaluated element by element once (a function written
\* [i \in 1..n |-> e] is otherwise re-evaluated at every application).
Force(f) == f \o <<>>

RECURSIVE SumSeq(_)
SumSeq(s) == IF s = <<>> THEN R(0) ELSE RAdd(Head(s), SumSeq(Tail(s)))

\* ------------------------------------------------------------ matrices

Transpose(M) ==
    Force([c \in 1..Len(M[1]) |-> Force([r \in 1..Len(M) |-> M[r][c]])])

MatMul(X, Y) ==
    Force([r \in 1..Len(X) |->
        Force([c \in 1..Len(Y[1]) |->
            SumSeq(Force([t \in 1..Len(Y) |-> RMul(X[r][t], Y[t][c])]))])])

\* M without row r and column c.
Minor(M, r, c) ==
    LET n == Len(M)
        row(i) == IF i < r THEN i ELSE i + 1
        col(j) == IF j < c THEN j ELSE j + 1
    IN  Force([i \in 1..(n - 1) |-> Force([j \in 1..(n - 1) |-> M[row(i)][col(j)]])])

\* The determinant by expansion along the first row.
RECURSIVE Det(_)
Det(M) ==
    IF Len(M) = 1 THEN M[1][1]
    ELSE SumSeq(Force([c \in 1..Len(M) |->
            RMul(IF c % 2 = 1 THEN M[1][c] ELSE RNeg(M[1][c]),
                 Det(Minor(M, 1, c)))]))

Cofactor(M, r, c) ==
    LET d == IF Len(M) = 1 THEN R(1) ELSE Det(Minor(M, r, c))
    IN  IF (r + c) % 2 = 0 THEN d ELSE RNeg(d)

\* math.inv: the inverse; <<>> stands for the exception it throws when the
\* determinant is zero.
MathInv(M) ==
    LET d == Det(M)
    IN  IF d = R(0) THEN <<>>
        ELSE Force([r \in 1..Len(M) |->
                Force([c \in 1..Len(M) |-> RDiv(Cofactor(M, c, r), d)])])

\* ----------------------------------------- indicator.ts: causal smoother
\* Sequences are 1-based here: position i stands for the code's index i - 1.

RECURSIVE IPow(_, _)
IPow(b, e) == IF e = 0 THEN 1 ELSE b * IPow(b, e - 1)

\* The design matrix A: row i holds the powers 0..p of the time index
\* -(w-1) + (i-1), the time indices running from -(w-1) to 0.
DesignMatrix(windowSize, polynomialOrder) ==
    Force([i \in 1..windowSize |->
        Force([j \in 1..(polynomialOrder + 1) |->
            R(IPow(-(windowSize - 1) + (i - 1), j - 1))])])

\* getCausalSgCoeffs: H = (A^T A)^-1 A^T, or <<>> (null) when the order is
\* not below the window size or the inversion throws.
getCausalSgCoeffs(windowSize, polynomialOrder) ==
    IF polynomialOrder >= windowSize THEN <<>>
    ELSE LET A   == DesignMatrix(windowSize, polynomialOrder)
             AT  == Transpose(A)
             inv == MathInv(MatMul(AT, A))
         IN  IF inv = <<>> THEN <<>> ELSE MatMul(inv, AT)

\* Zeros reported in place of unavailable derivatives.
ZeroDerivatives ==
    [smoothed_price |-> R(0), price_velocity |-> R(0), price_acceleration |-> R(0)]

NullDerivatives ==
    [smoothed_price |-> Null, price_velocity |-> Null, price_acceleration |-> Null]

\* A window slid one sample ahead, data.slice(i - windowSize + 2, i + 2), the
\* last sample repeated where the series ends: a smoother that looks ahead.
sgWindowDataLookAhead(data, i, windowSize) ==
    Force([j \in 1..windowSize |->
        R(data[IF i - windowSize + j + 1 <= Len(data)
               THEN i - windowSize + j + 1 ELSE Len(data)].price)])

\* data.slice(i - windowSize + 1, i + 1): the window that ends at position i.
sgWindowData(data, i, windowSize) ==
    Force([j \in 1..windowSize |-> R(data[i - windowSize + j].price)])

\* H[r] || []: row r of H (1-based), or the empty row when H has no such row.
CoeffRow(H, r) == IF r <= Len(H) THEN H[r] ELSE <<>>

Dot(coeffs, windowData) ==
    SumSeq(Force([j \in 1..Len(windowData) |-> RMul(coeffs[j], windowData[j])]))

\* savitzkyGolayCausal: one record per observation.
savitzkyGolayCausal(data, windowSize, polynomialOrder) ==
    LET H == getCausalSgCoeffs(windowSize, polynomialOrder)
    IN  IF H = <<>> THEN Force([i \in 1..Len(data) |-> NullDerivatives])
        ELSE LET smoothingCoeffs    == CoeffRow(H, 1)
                 derivativeCoeffs   == CoeffRow(H, 2)
                 accelerationCoeffs == CoeffRow(H, 3)
                 point(i) ==
                    IF i < windowSize THEN NullDerivatives
                    ELSE LET windowData == sgWindowData(data, i, windowSize)
                             smoothedValue  == Dot(smoothingCoeffs, windowData)
                             derivativeTerm ==
                                IF Len(derivativeCoeffs) > 0
                                THEN Dot(derivativeCoeffs, windowData) ELSE R(0)
                             accelerationTerm ==
                                IF Len(accelerationCoeffs) > 0
                                THEN Dot(accelerationCoeffs, windowData) ELSE R(0)
                         IN  [smoothed_price |-> smoothedValue,
                              price_velocity |-> derivativeTerm,
                              price_acceleration |->
                                 IF polynomialOrder >= 2
                                 THEN RMul(R(2), accelerationTerm) ELSE Null]
             IN  Force([i \in 1..Len(data) |-> point(i)])

\* ---------------------------------------- indicator.ts: rolling entropy

\* Array.prototype.sort((a, b) => a - b) on finite numbers.
RECURSIVE InsertSorted(_, _)
InsertSorted(x, s) ==
    IF s = <<>> THEN <<x>>
    ELSE IF RLe(x, Head(s)) THEN <<x>> \o s
    ELSE <<Head(s)>> \o InsertSorted(x, Tail(s))

RECURSIVE SortNumbers(_)
SortNumbers(s) ==
    IF s = <<>> THEN <<>> ELSE InsertSorted(Head(s), SortNumbers(Tail(s)))

\* getPercentile: linear interpolation between the two nearest ranks.
getPercentile(sortedData, percentile) ==
    IF Len(sortedData) = 0 \/ percentile < 0 \/ percentile > 100 THEN NaN
    ELSE IF Len(sortedData) = 1 THEN sortedData[1]
    ELSE LET index      == Q(percentile * (Len(sortedData) - 1), 100)
             lowerIndex == IFloor(index)
             upperIndex == ICeil(index)
         IN  IF lowerIndex = upperIndex THEN sortedData[lowerIndex + 1]
             ELSE LET weight == RSub(index, R(lowerIndex))
                  IN  RAdd(RMul(sortedData[lowerIndex + 1], RSub(R(1), weight)),
                           RMul(sortedData[upperIndex + 1], weight))

\* Math.log2 of a positive integer, to three decimals and additive over
\* products (log2 ab = log2 a + log2 b) for the integers whose prime factors
\* are at most 13; rounded down to the logarithm of k - 1 for the others.
RECURSIVE Log2Int(_)
Log2Int(k) ==
    IF k = 1 THEN R(0)
    ELSE IF k % 2 = 0 THEN RAdd(R(1), Log2Int(k \div 2))
    ELSE IF k % 3 = 0 THEN RAdd(Q(1585, 1000), Log2Int(k \div 3))
    ELSE IF k % 5 = 0 THEN RAdd(Q(2322, 1000), Log2Int(k \div 5))
    ELSE IF k % 7 = 0 THEN RAdd(Q(2807, 1000), Log2Int(k \div 7))
    ELSE IF k % 11 = 0 THEN RAdd(Q(3459, 1000), Log2Int(k \div 11))
    ELSE IF k % 13 = 0 THEN RAdd(Q(3700, 1000), Log2Int(k \div 13))
    ELSE Log2Int(k - 1)

\* Math.log2 of the probability count / n.
Log2Prob(count, n) ==
    LET g == GCD(count, n)
    IN  RSub(Log2Int(count \div g), Log2Int(n \div g))

\* Math.pow(n, 1/3), to three decimals, for the window sizes up to 9.
Cbrt(n) ==
    CASE n = 1 -> R(1)
      [] n = 2 -> Q(1260, 1000)
      [] n = 3 -> Q(1442, 1000)
      [] n = 4 -> Q(1587, 1000)
      [] n = 5 -> Q(1710, 1000)
      [] n = 6 -> Q(1817, 1000)
      [] n = 7 -> Q(1913, 1000)
      [] n = 8 -> R(2)
      [] OTHER -> Q(2080, 1000)

\* The largest r in lo..hi with r * r <= n.
RECURSIVE ISqrtIn(_, _, _)
ISqrtIn(n, lo, hi) ==
    IF lo >= hi THEN lo
    ELSE LET mid == (lo + hi + 1) \div 2
         IN  IF mid * mid <= n THEN ISqrtIn(n, mid, hi) ELSE ISqrtIn(n, lo, mid - 1)

\* Math.sqrt, to two decimals; NaN of a negative number.
Sqrt(x) ==
    IF IsNaN(x) \/ x[1] < 0 THEN NaN
    ELSE IF IsInf(x) THEN x
    ELSE Q(ISqrtIn((x[1] * 10000) \div x[2], 0, 40000), 100)

\* math.std: the unbiased sample standard deviation.
MathStd(values) ==
    LET n    == Len(values)
        mean == RDiv(SumSeq(values), R(n))
        ss   == SumSeq(Force([j \in 1..n |-> RSq(RSub(values[j], mean))]))
    IN  Sqrt(RDiv(ss, R(n - 1)))

\* v !== null && isFinite(v)
IsAvailable(v) == ~IsNull(v) /\ IsFin(v)

\* The bin of a value: Math.floor((value - windowMin) / binWidth), clamped to
\* the last bin.
binIndexOf(value, windowMin, binWidth, numBins) ==
    LET binIndex == IFloor(RDiv(RSub(value, windowMin), binWidth))
    IN  IF binIndex >= numBins THEN numBins - 1 ELSE binIndex

\* counts[b] for the bins 0..numBins-1 (held at positions 1..numBins).
histogramCounts(windowData, windowMin, binWidth, numBins) ==
    Force([b \in 1..numBins |->
        Cardinality({j \in 1..Len(windowData) :
            binIndexOf(windowData[j], windowMin, binWidth, numBins) = b - 1})])

\* entropy += probability * log(probability): the sum with its sign lost.
shannonEntropyAccumulating(counts, n) ==
    SumSeq(Force([b \in 1..Len(counts) |->
        IF counts[b] > 0
        THEN RMul(Q(counts[b], n), Log2Prob(counts[b], n))
        ELSE R(0)]))

\* entropy -= probability * log(probability), over the non-empty bins.
shannonEntropy(counts, n) ==
    RNeg(SumSeq(Force([b \in 1..Len(counts) |->
        IF counts[b] > 0
        THEN RMul(Q(counts[b], n), Log2Prob(counts[b], n))
        ELSE R(0)])))

\* The body of the loop of calculateCausalRollingEntropy for one window of
\* the series (nulls included): the entropy, and the number of histogram
\* bins it was computed over (0 when no histogram was built).
windowEntropy(window) ==
    LET windowData   == SelectSeq(window, IsAvailable)
        n            == Len(windowData)
        sortedWindow == SortNumbers(windowData)
        q1           == getPercentile(sortedWindow, 25)
        q3           == getPercentile(sortedWindow, 75)
        iqr          == RSub(q3, q1)
        windowMin    == sortedWindow[1]
        dataRange    == RSub(sortedWindow[n], windowMin)
        binWidth     ==
            IF RGt(iqr, R(0)) THEN RDiv(RMul(R(2), iqr), Cbrt(n))
            ELSE RDiv(RMul(Q(349, 100), MathStd(windowData)), Cbrt(n))
        numBins      ==
            LET c == ICeil(RDiv(dataRange, binWidth)) IN IF c < 1 THEN 1 ELSE c
    IN  IF n < 2 THEN [entropy |-> R(0), numBins |-> 0]
        ELSE IF ~RGt(iqr, R(0)) /\ ~RGt(dataRange, R(0))
             THEN [entropy |-> R(0), numBins |-> 0]
        ELSE IF RLe(binWidth, R(0)) THEN [entropy |-> R(0), numBins |-> 0]
        ELSE [entropy |-> shannonEntropy(
                 histogramCounts(windowData, windowMin, binWidth, numBins), n),
              numBins |-> numBins]

\* series.slice(i - entropyWindow + 1, i + 1)
entropyWindowOf(series, i, entropyWindow) ==
    Force([j \in 1..entropyWindow |-> series[i - entropyWindow + j]])

\* calculateCausalRollingEntropy: one entropy (or null) per element.
calculateCausalRollingEntropy(series, entropyWindow) ==
    IF Len(series) < entropyWindow THEN Force([i \in 1..Len(series) |-> Null])
    ELSE Force([i \in 1..Len(series) |->
            IF i < entropyWindow THEN Null
            ELSE windowEntropy(entropyWindowOf(series, i, entropyWindow)).entropy])

\* ----------------------------- indicator.ts: market parameters (k, F, m)

IMax(a, b) == IF a > b THEN a ELSE b

\* calculateSMA over the positions lo..hi of field(data[i]): the mean of the
\* finite numbers among them, 0 when there is none.
calculateSMA(values) ==
    LET finite == SelectSeq(values, IsFin)
    IN  IF Len(finite) > 0 THEN RDiv(SumSeq(finite), R(Len(finite))) ELSE R(0)

\* math.lusolve of the 2 x 2 system M x = b: LU decomposition with partial
\* pivoting, forward then backward substitution.  A zero pivot met with a
\* non-zero right-hand side throws (<<>>); with a zero right-hand side the
\* unknown is set to 0.
lusolve2(M, b) ==
    LET swap == RLt(RAbs(M[1][1]), RAbs(M[2][1]))
        r1   == IF swap THEN 2 ELSE 1
        r2   == IF swap THEN 1 ELSE 2
        u11  == M[r1][1]
        u12  == M[r1][2]
        l21  == IF u11 = R(0) THEN R(0) ELSE RDiv(M[r2][1], u11)
        u22  == RSub(M[r2][2], RMul(l21, u12))
        y1   == b[r1]
        y2   == RSub(b[r2], RMul(l21, y1))
        x2   == IF y2 = R(0) THEN R(0) ELSE RDiv(y2, u22)
        z1   == RSub(y1, RMul(x2, u12))
        x1   == IF z1 = R(0) THEN R(0) ELSE RDiv(z1, u11)
    IN  IF (y2 # R(0) /\ u22 = R(0)) \/ (z1 # R(0) /\ u11 = R(0)) THEN <<>>
        ELSE <<x1, x2>>

\* The threshold exponents: m < 1e-9, epsilon = 1e-10.
MassEpsilonExp == 9
TemperatureEpsilonExp == 10

\* The regression rows of estimateMarketParameters at position i: the
\* positions i, i-1, ... of the window whose acceleration and smoothed price
\* are finite numbers.
regressionRows(data, i, regressionWindow) ==
    SelectSeq(Force([j \in 1..regressionWindow |-> data[i - j + 1]]),
              LAMBDA wp : IsAvailable(wp.price_acceleration)
                          /\ IsAvailable(wp.smoothed_price))

\* estimateMarketParameters at position i of the smoothed data.
marketParametersAt(data, i, regressionWindow, equilibriumWindow) ==
    LET minDataLength == IMax(regressionWindow, equilibriumWindow)
        unavailable   == [k |-> Null, F |-> Null, m |-> Null, p_eq |-> Null]
        p_eq      == calculateSMA(Force([j \in 1..equilibriumWindow |->
                        data[i - equilibriumWindow + j].smoothed_price]))
        avg_vol   == calculateSMA(Force([j \in 1..regressionWindow |->
                        R(data[i - regressionWindow + j].volume)]))
        avg_price == calculateSMA(Force([j \in 1..regressionWindow |->
                        data[i - regressionWindow + j].smoothed_price]))
        m         == IF RGt(avg_price, R(0)) THEN RDiv(avg_vol, avg_price) ELSE R(0)
        noFit     == [k |-> Null, F |-> Null, m |-> m, p_eq |-> p_eq]
        rows      == regressionRows(data, i, regressionWindow)
        y(r)      == RMul(m, rows[r].price_acceleration)
        x(r)      == RSub(rows[r].smoothed_price, p_eq)
        n         == Len(rows)
        XTX       == <<<<R(n), SumSeq(Force([r \in 1..n |-> x(r)]))>>,
                       <<SumSeq(Force([r \in 1..n |-> x(r)])),
                         SumSeq(Force([r \in 1..n |-> RSq(x(r))]))>>>>
        XTY       == <<SumSeq(Force([r \in 1..n |-> y(r)])),
                       SumSeq(Force([r \in 1..n |-> RMul(x(r), y(r))]))>>
        beta      == lusolve2(XTX, XTY)
    IN  IF i < minDataLength \/ IsNull(data[i].price_acceleration)
           \/ ~IsFin(data[i].price_acceleration)
        THEN unavailable
        ELSE IF LtTenTo(m, MassEpsilonExp) THEN noFit
        ELSE IF n < 2 THEN noFit
        ELSE IF beta = <<>> THEN noFit
        ELSE [k |-> RNeg(beta[2]), F |-> beta[1], m |-> m, p_eq |-> p_eq]

\* Merge two records (the object spread { ...a, ...b }).
Spread(a, b) == b @@ a

estimateMarketParameters(data, regressionWindow, equilibriumWindow) ==
    Force([i \in 1..Len(data) |->
        Spread(data[i],
               marketParametersAt(data, i, regressionWindow, equilibriumWindow))])

\* ------------------------------------------- indicator.ts: temperature

\* The (dE, dV) pairs of calculateTemperature at position i: for j = 0 ..
\* temperatureWindow - 1 the differences between positions i - j and
\* i - j - 1 whose entropies are finite, kept when either is above epsilon.
temperatureDeltas(data, i, temperatureWindow) ==
    LET pair(j) ==
            LET curr == data[i - j]
                prev == data[i - j - 1]
            IN  IF IsAvailable(curr.entropy) /\ IsAvailable(prev.entropy)
                THEN <<RSub(curr.entropy, prev.entropy),
                       R(curr.volume - prev.volume)>>
                ELSE <<Null, Null>>
        kept(d) == ~IsNull(d[1])
                   /\ (GtTenTo(RAbs(d[1]), TemperatureEpsilonExp)
                       \/ GtTenTo(RAbs(d[2]), TemperatureEpsilonExp))
    IN  SelectSeq(Force([j \in 1..temperatureWindow |-> pair(j - 1)]), kept)

\* denom = N * sum(x^2) - (sum x)^2 over the pairs.
regressionDenominator(deltas) ==
    LET sumX  == SumSeq(Force([r \in 1..Len(deltas) |-> deltas[r][1]]))
        sumX2 == SumSeq(Force([r \in 1..Len(deltas) |-> RSq(deltas[r][1])]))
    IN  RSub(RMul(R(Len(deltas)), sumX2), RMul(sumX, sumX))

\* (N * sum(xy) - sum(x) * sum(y)) / denom
regressionSlope(deltas) ==
    LET sumX  == SumSeq(Force([r \in 1..Len(deltas) |-> deltas[r][1]]))
        sumY  == SumSeq(Force([r \in 1..Len(deltas) |-> deltas[r][2]]))
        sumXY == SumSeq(Force([r \in 1..Len(deltas) |-> RMul(deltas[r][1], deltas[r][2])]))
    IN  RDiv(RSub(RMul(R(Len(deltas)), sumXY), RMul(sumX, sumY)),
             regressionDenominator(deltas))

\* calculateTemperature without the test of the slope against epsilon: the
\* reciprocal of the slope whatever the slope is.
temperatureAtUnguardedSlope(data, i, temperatureWindow) ==
    LET deltas == temperatureDeltas(data, i, temperatureWindow)
        denom  == regressionDenominator(deltas)
        slope  == regressionSlope(deltas)
    IN  IF i <= temperatureWindow THEN Null
        ELSE IF Len(deltas) < 2 THEN Null
        ELSE IF GtTenTo(RAbs(denom), TemperatureEpsilonExp)
             THEN RDiv(R(1), RAbs(slope))
        ELSE Null

\* The temperature of calculateTemperature (lines 291-334) at position i.
temperatureAt(data, i, temperatureWindow) ==
    LET deltas == temperatureDeltas(data, i, temperatureWindow)
        denom  == regressionDenominator(deltas)
        slope  == regressionSlope(deltas)
    IN  IF i <= temperatureWindow THEN Null
        ELSE IF Len(deltas) < 2 THEN Null
        ELSE IF GtTenTo(RAbs(denom), TemperatureEpsilonExp)
             THEN (IF GtTenTo(RAbs(slope), TemperatureEpsilonExp)
                   THEN RDiv(R(1), RAbs(slope)) ELSE Null)
        ELSE Null

calculateTemperature(data, temperatureWindow) ==
    Force([i \in 1..Len(data) |->
        Spread(data[i], [temperature |-> temperatureAt(data, i, temperatureWindow)])])

\* The pairs of the second calculateTemperature of the file (lines 688-721):
\* j = 0 .. temperatureWindow - 2, entropies only tested against null, pairs
\* kept when both differences are finite.
legacyTemperatureDeltas(data, i, temperatureWindow) ==
    LET pair(j) ==
            LET curr == data[i - j]
                prev == data[i - j - 1]
            IN  IF ~IsNull(curr.entropy) /\ ~IsNull(prev.entropy)
                THEN <<RSub(curr.entropy, prev.entropy),
                       R(curr.volume - prev.volume)>>
                ELSE <<Null, Null>>
        kept(d) == ~IsNull(d[1]) /\ IsFin(d[1]) /\ IsFin(d[2])
    IN  SelectSeq(Force([j \in 1..(temperatureWindow - 1) |-> pair(j - 1)]), kept)

\* The temperature of that second definition at position i: the slope is 0
\* when the denominator is within epsilon, and a slope within epsilon gives
\* Infinity.  A position the loop does not reach keeps the temperature the
\* data came with.
legacyTemperatureAt(data, i, temperatureWindow) ==
    LET deltas == legacyTemperatureDeltas(data, i, temperatureWindow)
        denom  == regressionDenominator(deltas)
        slope  == IF GtTenTo(RAbs(denom), TemperatureEpsilonExp)
                  THEN regressionSlope(deltas) ELSE R(0)
    IN  IF i < temperatureWindow THEN data[i].temperature
        ELSE IF Len(deltas) < 2 THEN data[i].temperature
        ELSE IF GtTenTo(RAbs(slope), TemperatureEpsilonExp)
             THEN RDiv(R(1), RAbs(slope)) ELSE PosInf

calculateTemperatureLegacy(data, temperatureWindow) ==
    Force([i \in 1..Len(data) |->
        Spread(data[i],
               [temperature |-> legacyTemperatureAt(data, i, temperatureWindow)])])

\* --------------------------------------- indicator.ts: the master pipeline

\* The final phase of calculateStateVector for one point: potential and
\* momentum from the fields they need.
finalPhase(d) ==
    LET momentum ==
            IF IsAvailable(d.price_velocity) /\ IsAvailable(d.m)
            THEN RMul(RMul(Q(1, 2), d.m), RSq(d.price_velocity)) ELSE Null
        potential ==
            IF IsAvailable(d.k) /\ IsAvailable(d.F)
               /\ IsAvailable(d.smoothed_price) /\ IsAvailable(d.p_eq)
            THEN RSub(RMul(RMul(Q(1, 2), d.k), RSq(RSub(d.smoothed_price, d.p_eq))),
                      RMul(d.F, d.smoothed_price))
            ELSE Null
    IN  Spread(d, [potential |-> potential, momentum |-> momentum])

\* The phases of calculateStateVector, each a function of the previous
\* phase's array.
withDerivatives(data, options) ==
    LET smoothedData == savitzkyGolayCausal(data, options.sgWindow, options.sgPolyOrder)
    IN  Force([i \in 1..Len(data) |-> Spread(data[i], smoothedData[i])])

withEntropy(dataWithParams, options) ==
    LET velocitySeries ==
            Force([i \in 1..Len(dataWithParams) |-> dataWithParams[i].price_velocity])
        entropySeries  ==
            calculateCausalRollingEntropy(velocitySeries, options.entropyWindow)
    IN  Force([i \in 1..Len(dataWithParams) |->
            Spread(dataWithParams[i], [entropy |-> entropySeries[i]])])

withEnergies(dataWithTemperature) ==
    Force([i \in 1..Len(dataWithTemperature) |-> finalPhase(dataWithTemperature[i])])

\* calculateStateVector (lines 339-367): smoothing, market parameters,
\* entropy of the velocity, temperature, then potential and momentum.  Each
\* phase's array is computed once and handed to the next.
calculateStateVector(data, options) ==
    CHOOSE finalData \in
        { withEnergies(dataWithTemperature) : dataWithTemperature \in
        { calculateTemperature(dataWithEntropy, options.temperatureWindow) :
              dataWithEntropy \in
        { withEntropy(dataWithParams, options) : dataWithParams \in
        { estimateMarketParameters(dataWithDerivatives,
              options.regressionWindow, options.equilibriumWindow) :
              dataWithDerivatives \in
        { withDerivatives(data, options) } } } } } : TRUE

\* ------------------------------------------ the pipeline as a machine
\* Observations arrive one at a time and the whole series is recomputed, as
\* the page does whenever its raw data changes.

\* The longest series.
MaxLen == 4

Prices  == {1, 2, 4}
Volumes == {0, 2}

Options(sg, po, rw, qw, ew, tw) ==
    [sgWindow |-> sg, sgPolyOrder |-> po, regressionWindow |-> rw,
     equilibriumWindow |-> qw, entropyWindow |-> ew, temperatureWindow |-> tw]

\* The settings explored: a quadratic fit over three samples, a linear fit
\* over two (no acceleration), and an order that is not below the window.
OptionChoices ==
    { Options(3, 2, 2, 2, 2, 2),
      Options(2, 1, 2, 2, 2, 2),
      Options(2, 2, 2, 2, 2, 2) }

\* The pipeline is not in use.
PipelineIdle == rawMarketData = <<>> /\ stateVectorData = <<>>

\* calculateTemperature is not in use on its own.
TemperatureIdle ==
    entropyData = <<>> /\ temperatureData = <<>> /\ legacyTemperatureData = <<>>

\* The page is not in use.
PageIdle ==
    /\ controlState = <<>> /\ calculatedParams = <<>> /\ analysisResult = <<>>
    /\ isLoadingData = FALSE /\ isCalculating = FALSE /\ isAnalysisLoading = FALSE
    /\ timers = <<>> /\ debounceCleanup = 0 /\ fetches = <<>> /\ analyses = <<>>
    /\ userActions = 0
    /\ toast = "none"

\* No particle filter has been constructed.
FilterIdle ==
    pfOptions = <<>> /\ particles = <<>> /\ filterSteps = 0 /\ lastCall = <<>>

\* calculateCausalRollingEntropy is not in use on its own.
EntropyIdle ==
    /\ entropyInput = <<>> /\ entropyWindowSize = 0
    /\ entropyOutput = <<>> /\ entropyBins = <<>>

\* The causal engine is not in use.
CausalIdle ==
    /\ causalOptions = <<>> /\ priceHistory = <<>> /\ results = <<>>
    /\ lusolveTakesMatrix = FALSE

\* No filter is being constructed from a covariance.
CholeskyIdle == covariance = <<>> /\ constructed = "pending"

\* No EmergentMindHMM is in use.
HmmIdle ==
    /\ nStates = 0 /\ nMix = 0 /\ params = <<>> /\ maxIter = 0
    /\ hmmData = <<>> /\ iteration = 0 /\ previousLogLikelihood = <<-1, 0>>
    /\ fitState = "constructed" /\ fitResult = <<0, -1>>
    /\ predicted = [error |-> "pending", T |-> 0, gamma |-> <<>>]
    /\ mathCovDefined = TRUE

\* findOptimalHMM is not running.
SelectionIdle ==
    /\ k_range = <<>> /\ selectionData = <<>> /\ candidate = 0
    /\ bestModel = <<>> /\ bestK = -1 /\ bestBic = <<1, 0>>
    /\ scored = <<>> /\ selection = "returned" /\ bicScore = <<>>
    /\ fitReturned = <<>>

\* No RegimeClassifier is in use.
ClassifierIdle ==
    historicalData = <<>> /\ sortedValues = <<>> /\ percentileRank = <<>>

\* new Map(): no key.
EmptyCache == [key \in {} |-> <<>>]

\* The coefficient caches are not followed.
CacheIdle ==
    /\ sgCoeffsCache = EmptyCache /\ causalSgCoeffsCache = EmptyCache
    /\ cacheSets = <<>> /\ coeffsReturned = <<>> /\ cacheCalls = 0

\* The smoothers are not being compared.
SmootherIdle ==
    /\ smootherData = <<>> /\ smootherOptions = <<>>
    /\ smoothedSeries = <<>> /\ causalDerivative = <<>>
    /\ CacheIdle

\* The components checked on their own are not in use.
StatisticsIdle ==
    /\ CholeskyIdle /\ HmmIdle /\ SelectionIdle /\ ClassifierIdle
    /\ SmootherIdle

Init ==
    /\ rawMarketData = <<>>
    /\ indicatorOptions \in OptionChoices
    /\ stateVectorData = <<>>
    /\ TemperatureIdle
    /\ PageIdle
    /\ FilterIdle
    /\ EntropyIdle
    /\ CausalIdle
    /\ StatisticsIdle

Observe(price, volume) ==
    /\ Len(rawMarketData) < MaxLen
    /\ rawMarketData' = Append(rawMarketData, [price |-> price, volume |-> volume])
    /\ stateVectorData' = calculateStateVector(rawMarketData', indicatorOptions)
    /\ UNCHANGED <<indicatorOptions, temperatureVars, pageVars, filterVars,
        entropyVars, causalVars,
        statisticsVars>>

Next == \E price \in Prices, volume \in Volumes : Observe(price, volume)

Spec == Init /\ [][Next]_vars

\* ------------------------------------------------ the pipeline's claims

\* The numeric derived fields of a StateVector.
DerivedFields ==
    {"smoothed_price", "price_velocity", "price_acceleration", "p_eq", "k",
     "F", "m", "potential", "momentum", "entropy", "temperature"}

\* C1: causality.  Appending an observation changes no field of any state
\* vector already computed: the output at every index of the series before
\* the observation arrived is the output at that index of the longer series.
C1_Causality ==
    [][\A i \in 1..Len(stateVectorData) :
          stateVectorData'[i] = stateVectorData[i]]_vars

\* C1 witness: a series of four observations whose third state vector has
\* a velocity, a mass, a momentum and an entropy, computed before the fourth
\* observation arrived.
C1_Witness ==
    /\ Len(stateVectorData) = 4
    /\ IsAvailable(stateVectorData[3].price_velocity)
    /\ IsAvailable(stateVectorData[3].momentum)
    /\ IsAvailable(stateVectorData[3].p_eq)
    /\ IsAvailable(stateVectorData[3].entropy)
    /\ IsAvailable(stateVectorData[4].potential)

MaxTemperatureLen == 4

\* Entropies: unavailable during burn-in (only before the first number),
\* then numbers.
Entropies == {Null, R(0), R(1)}

TemperatureWindows == {2, 3}

TemperatureInit ==
    /\ entropyData = <<>>
    /\ temperatureData = <<>>
    /\ legacyTemperatureData = <<>>
    /\ \E tw \in TemperatureWindows : indicatorOptions = Options(3, 2, 2, 2, 2, tw)
    /\ PipelineIdle
    /\ PageIdle
    /\ FilterIdle
    /\ EntropyIdle
    /\ CausalIdle
    /\ StatisticsIdle

ObserveEntropy(entropy, volume) ==
    /\ Len(entropyData) < MaxTemperatureLen
    /\ IsNull(entropy) => \A i \in 1..Len(entropyData) : IsNull(entropyData[i].entropy)
    /\ entropyData' = Append(entropyData,
            [entropy |-> entropy, volume |-> volume, temperature |-> Null])
    /\ temperatureData' =
            calculateTemperature(entropyData', indicatorOptions.temperatureWindow)
    /\ legacyTemperatureData' =
            calculateTemperatureLegacy(entropyData', indicatorOptions.temperatureWindow)
    /\ UNCHANGED <<indicatorOptions, pipelineVars, pageVars, filterVars,
        entropyVars, causalVars,
        statisticsVars>>

TemperatureNext ==
    \E entropy \in Entropies, volume \in Volumes : ObserveEntropy(entropy, volume)

SpecTemperature == TemperatureInit /\ [][TemperatureNext]_vars

\* The regression over the pairs is degenerate: its denominator is within
\* epsilon of zero.
Degenerate(deltas) ==
    ~GtTenTo(RAbs(regressionDenominator(deltas)), TemperatureEpsilonExp)

\* C3: wherever the regression denominator N*sum(x^2) - (sum x)^2 over the
\* window's entropy differences is within epsilon of zero, the temperature
\* is null, and no temperature is ever an infinity; of both definitions of
\* calculateTemperature.
C3_DegenerateRegressionIsNull ==
    LET tw == indicatorOptions.temperatureWindow
    IN  \A i \in 1..Len(entropyData) :
            /\ i > tw /\ Degenerate(temperatureDeltas(entropyData, i, tw))
                    => IsNull(temperatureData[i].temperature)
            /\ i >= tw /\ Degenerate(legacyTemperatureDeltas(entropyData, i, tw))
                    => IsNull(legacyTemperatureData[i].temperature)
            /\ ~IsInf(temperatureData[i].temperature)
            /\ ~IsInf(legacyTemperatureData[i].temperature)

\* ------------------------------------------------------ page.tsx: the page
\* The page's state, its two effects (market-data fetch, debounced
\* recalculation) and its analysis request.  A state change, the render it
\* causes and the effects of that render (cleanup of the previous effect,
\* then the effect) are one step.

\* How many times the user changes a control, and asks for an analysis.
MaxUserActions == 2

Assets == {"bitcoin", "ethereum"}

\* The values of the sgWindow control.
SgWindows == {2, 3}

\* What a market-data request can deliver.
FetchedSeries ==
    { <<[price |-> 1, volume |-> 0], [price |-> 2, volume |-> 2],
        [price |-> 4, volume |-> 0], [price |-> 1, volume |-> 2],
        [price |-> 2, volume |-> 2]>>,
      <<[price |-> 4, volume |-> 2], [price |-> 2, volume |-> 0],
        [price |-> 1, volume |-> 2], [price |-> 4, volume |-> 2],
        [price |-> 1, volume |-> 0]>> }

\* The IndicatorOptions runCalculations builds from the control state.
indicatorOptionsOf(control) ==
    Options(control.sgWindow, control.sgPolyOrder, control.regressionWindow,
            control.equilibriumWindow, control.entropyWindow,
            control.temperatureWindow)

\* A filter that does not look at the temperature.
isValidStateWithoutTemperature(d) ==
    IsAvailable(d.potential) /\ IsAvailable(d.momentum) /\ IsAvailable(d.entropy)

\* validData: the state vectors with all four dimensions.
isValidState(d) ==
    /\ IsAvailable(d.potential) /\ IsAvailable(d.momentum)
    /\ IsAvailable(d.entropy) /\ IsAvailable(d.temperature)

\* What runCalculations publishes for the data and control state it closes
\* over: <<>> (null) when no state vector is valid, else the parameters, held
\* here as the trajectory (validData) the ranks and scores are computed from.
runCalculations(data, control) ==
    CHOOSE newParams \in
        { IF validData = <<>> THEN <<>> ELSE <<[trajectory |-> validData]>> :
              validData \in
        { SelectSeq(calculateStateVector(data, indicatorOptionsOf(control)),
                    isValidState) } } : TRUE

\* The requests in flight without request i, which has settled.
Settled(requests, i) ==
    SubSeq(requests, 1, i - 1) \o SubSeq(requests, i + 1, Len(requests))

\* A cleanup that forgets to clear its timer.
clearTimeoutForgotten(ts, id) == ts

\* clearTimeout(debounceTimeout): a timer still pending will not fire.
clearTimeout(ts, id) ==
    IF id \in DOMAIN ts /\ ts[id].status = "pending"
    THEN [ts EXCEPT ![id].status = "cleared"] ELSE ts

\* The calculation effect (lines 138-208) after a render in which the data is
\* newData and the control state newControl: the previous effect's cleanup,
\* then either the reset for empty data or a new debounce timer.
CalculationEffect(newData, newControl, published) ==
    LET cleared == clearTimeout(timers, debounceCleanup)
    IN  IF newData = <<>>
        THEN /\ calculatedParams' = <<>>
             /\ timers' = cleared
             /\ debounceCleanup' = 0
        ELSE /\ calculatedParams' = published
             /\ timers' = Append(cleared,
                    [rawMarketData |-> newData, controlState |-> newControl,
                     status |-> "pending"])
             /\ debounceCleanup' = Len(timers) + 1

\* What the page's steps leave alone.
pageOthers == <<indicatorOptions, stateVectorData, temperatureVars, filterVars,
        entropyVars, causalVars,
        statisticsVars>>

\* The page once mounted, its date range set and its first request sent.
PageInit ==
    /\ controlState = [asset |-> "bitcoin", sgWindow |-> 3, sgPolyOrder |-> 2,
                       regressionWindow |-> 2, equilibriumWindow |-> 2,
                       entropyWindow |-> 2, temperatureWindow |-> 2]
    /\ rawMarketData = <<>>
    /\ calculatedParams = <<>> /\ analysisResult = <<>>
    /\ isLoadingData = TRUE /\ isCalculating = FALSE /\ isAnalysisLoading = FALSE
    /\ timers = <<>> /\ debounceCleanup = 0
    /\ fetches = <<[asset |-> "bitcoin"]>>
    /\ analyses = <<>>
    /\ userActions = 0
    /\ toast = "none"
    /\ indicatorOptions = Options(3, 2, 2, 2, 2, 2)
    /\ stateVectorData = <<>>
    /\ TemperatureIdle
    /\ FilterIdle
    /\ EntropyIdle
    /\ CausalIdle
    /\ StatisticsIdle

\* The user picks another asset: the fetch effect runs (lines 98-136).
ChangeAsset(asset) ==
    /\ userActions < MaxUserActions
    /\ asset # controlState.asset
    /\ userActions' = userActions + 1
    /\ controlState' = [controlState EXCEPT !.asset = asset]
    /\ isLoadingData' = TRUE
    /\ calculatedParams' = <<>>
    /\ fetches' = Append(fetches, [asset |-> asset])
    /\ UNCHANGED <<pageOthers, rawMarketData, analysisResult, isCalculating,
                   isAnalysisLoading, timers, debounceCleanup, analyses, toast>>

\* The user moves the sgWindow control: the calculation effect runs again.
ChangeSgWindow(w) ==
    /\ userActions < MaxUserActions
    /\ w # controlState.sgWindow
    /\ userActions' = userActions + 1
    /\ controlState' = [controlState EXCEPT !.sgWindow = w]
    /\ CalculationEffect(rawMarketData, controlState', calculatedParams)
    /\ UNCHANGED <<pageOthers, rawMarketData, analysisResult, isLoadingData, isCalculating,
                   isAnalysisLoading, fetches, analyses, toast>>

\* A market-data request delivers prices: setRawMarketData(fetchedData),
\* setIsLoadingData(false), and the calculation effect runs.
FetchSucceeds(f, series) ==
    /\ fetches' = Settled(fetches, f)
    /\ rawMarketData' = series
    /\ isLoadingData' = FALSE
    /\ CalculationEffect(series, controlState, calculatedParams)
    /\ UNCHANGED <<pageOthers, controlState, analysisResult, isCalculating,
                   isAnalysisLoading, analyses, userActions, toast>>

\* A failing request whose flag is cleared only at the end of the try block.
FetchFailsKeepingFlag(f) ==
    /\ fetches' = Settled(fetches, f)
    /\ rawMarketData' = <<>>
    /\ CalculationEffect(<<>>, controlState, calculatedParams)
    /\ toast' = "Data Fetching Error"
    /\ UNCHANGED <<pageOthers, controlState, analysisResult, isLoadingData,
                   isCalculating, isAnalysisLoading, analyses, userActions>>

\* A market-data request fails or delivers no prices: setRawMarketData([]).
FetchFails(f) ==
    /\ fetches' = Settled(fetches, f)
    /\ rawMarketData' = <<>>
    /\ isLoadingData' = FALSE
    /\ CalculationEffect(<<>>, controlState, calculatedParams)
    /\ toast' = "Data Fetching Error"
    /\ UNCHANGED <<pageOthers, controlState, analysisResult, isCalculating,
                   isAnalysisLoading, analyses, userActions>>

\* A debounce timer fires: runCalculations (lines 144-203) with the data and
\* control state of the render that set the timer.
TimerFires(t) ==
    /\ timers[t].status = "pending"
    /\ timers' = [timers EXCEPT ![t].status = "fired"]
    /\ analysisResult' = <<>>
    /\ calculatedParams' =
            runCalculations(timers[t].rawMarketData, timers[t].controlState)
    /\ toast' = IF calculatedParams' = <<>> THEN "Calculation Error" ELSE toast
    /\ isCalculating' = FALSE
    /\ UNCHANGED <<pageOthers, rawMarketData, controlState, isLoadingData,
                   isAnalysisLoading, debounceCleanup, fetches, analyses,
                   userActions>>

\* handleGenerateAnalysis (lines 210-231) up to its await.
GenerateAnalysis ==
    /\ userActions < MaxUserActions
    /\ calculatedParams # <<>>
    /\ userActions' = userActions + 1
    /\ isAnalysisLoading' = TRUE
    /\ analyses' = Append(analyses, [params |-> calculatedParams[1]])
    /\ UNCHANGED <<pageOthers, rawMarketData, controlState, calculatedParams, analysisResult,
                   isLoadingData, isCalculating, timers, debounceCleanup, fetches, toast>>

\* generateMarketAnalysis resolves: setAnalysisResult(result).
AnalysisResolves(a) ==
    /\ analyses' = Settled(analyses, a)
    /\ analysisResult' = <<[params |-> analyses[a].params]>>
    /\ isAnalysisLoading' = FALSE
    /\ UNCHANGED <<pageOthers, rawMarketData, controlState, calculatedParams, isLoadingData,
                   isCalculating, timers, debounceCleanup, fetches, userActions, toast>>

\* generateMarketAnalysis rejects: only the loading flag is cleared.
AnalysisRejects(a) ==
    /\ analyses' = Settled(analyses, a)
    /\ isAnalysisLoading' = FALSE
    /\ toast' = "Analysis Failed"
    /\ UNCHANGED <<pageOthers, rawMarketData, controlState, calculatedParams, analysisResult,
                   isLoadingData, isCalculating, timers, debounceCleanup, fetches,
                   userActions>>

PageNext ==
    \/ \E asset \in Assets : ChangeAsset(asset)
    \/ \E w \in SgWindows : ChangeSgWindow(w)
    \/ \E f \in DOMAIN fetches, series \in FetchedSeries : FetchSucceeds(f, series)
    \/ \E f \in DOMAIN fetches : FetchFails(f)
    \/ \E t \in DOMAIN timers : TimerFires(t)
    \/ GenerateAnalysis
    \/ \E a \in DOMAIN analyses : AnalysisResolves(a)
    \/ \E a \in DOMAIN analyses : AnalysisRejects(a)

SpecPage == PageInit /\ [][PageNext]_vars

\* A request in flight settles: it delivers prices or fails.
FetchSettles ==
    \E f \in DOMAIN fetches :
        \/ \E series \in FetchedSeries : FetchSucceeds(f, series)
        \/ FetchFails(f)

\* A pending debounce timer fires: of the steps of the page, those of
\* TimerFires, which has no other guard.
TimerRuns ==
    \E t \in DOMAIN timers :
        /\ timers[t].status = "pending"
        /\ timers' = [timers EXCEPT ![t].status = "fired"]

\* The page in a browser that settles every request and runs every timer
\* that is not cleared.
SpecPageSettling ==
    /\ SpecPage
    /\ WF_vars(FetchSettles)
    /\ WF_timers(TimerRuns)
    /\ WF_vars(\E a \in DOMAIN analyses :
                    AnalysisResolves(a) \/ AnalysisRejects(a))

\* The timers that have neither fired nor been cleared.
PendingTimers == {t \in DOMAIN timers : timers[t].status = "pending"}

FourFinite(d) ==
    /\ IsFin(d.potential) /\ IsFin(d.momentum)
    /\ IsFin(d.entropy) /\ IsFin(d.temperature)

\* The state vectors the engine returns to the run that timer t starts.
EngineResult(t) ==
    calculateStateVector(timers[t].rawMarketData,
                         indicatorOptionsOf(timers[t].controlState))

\* Timer t fires in this step.
Fires(t) ==
    /\ timers[t].status = "pending"
    /\ t \in DOMAIN timers' /\ timers'[t].status = "fired"

\* C21: defensive publication.  Whatever the page publishes is a non-empty
\* trajectory of state vectors whose potential, momentum, entropy and
\* temperature are all non-null and finite (the ranks and scores are
\* computed from that trajectory alone); a run publishes exactly the
\* vectors of the engine's result that have all four, in order, and when
\* the engine returns none it sets calculatedParams to null and shows the
\* "Calculation Error" toast.
C21_DefensivePublication ==
    /\ [](calculatedParams # <<>> =>
            /\ calculatedParams[1].trajectory # <<>>
            /\ \A i \in 1..Len(calculatedParams[1].trajectory) :
                    FourFinite(calculatedParams[1].trajectory[i]))
    /\ [][\A t \in DOMAIN timers : Fires(t) =>
            IF \A i \in 1..Len(EngineResult(t)) : ~FourFinite(EngineResult(t)[i])
            THEN calculatedParams' = <<>> /\ toast' = "Calculation Error"
            ELSE /\ calculatedParams' # <<>>
                 /\ calculatedParams'[1].trajectory
                        = SelectSeq(EngineResult(t), FourFinite)]_vars

\* C21 witness: a run has published a trajectory shorter than the data it
\* was computed from (vectors were filtered out), after an earlier run
\* found no valid vector at all and showed the error.
C21_Witness ==
    /\ calculatedParams # <<>>
    /\ Len(calculatedParams[1].trajectory) \in 1..(Len(rawMarketData) - 1)
    /\ toast = "Calculation Error"
    /\ \E t \in DOMAIN timers :
            /\ timers[t].status = "fired"
            /\ timers[t].controlState.sgWindow = 2

\* C27: stale analysis is never shown.  The analysis displayed was
\* generated from the parameters now published: a response that arrives
\* after the parameters were recomputed is not displayed with the new
\* parameters (nor with none).
C27_NoStaleAnalysis ==
    analysisResult # <<>> =>
        /\ calculatedParams # <<>>
        /\ analysisResult[1].params = calculatedParams[1]

\* A market-data request settles in this step.
FetchSettled == Len(fetches') < Len(fetches)

NumParticles == 2

\* How many predict and update calls are followed.
MaxFilterSteps == 3

\* The exponents of the weight-collapse threshold 1e-9 and of the floor
\* 1e-12 under which getESS reports 0.
WeightCollapseExp == 9
EssFloorExp == 12

\* Math.exp(-z^2 / 2) on a grid: 1 near 0, 1/2 near 1, 1/4 near 2, and 0
\* from 5/2 on (and for an infinite z).
ExpNegHalfSquare(z) ==
    IF IsNaN(z) THEN NaN
    ELSE IF RLt(z, Q(1, 2)) THEN R(1)
    ELSE IF RLt(z, Q(3, 2)) THEN Q(1, 2)
    ELSE IF RLt(z, Q(5, 2)) THEN Q(1, 4)
    ELSE R(0)

\* normalPdf (statistics.ts): 0 for a standard deviation <= 0, else
\* 1 / (stdDev * sqrt(2 pi)) * exp(-((x - mean) / stdDev)^2 / 2), with
\* 1 / sqrt(2 pi) taken as 2/5.
normalPdf(x, mean, stdDev) ==
    IF RLe(stdDev, R(0)) THEN R(0)
    ELSE RMul(RDiv(Q(2, 5), stdDev),
              ExpNegHalfSquare(RAbs(RDiv(RSub(x, mean), stdDev))))

\* h: the predicted measurement F - k * (p - p_eq), k = exp(log k).
h(state, price, p_eq) ==
    RSub(R(state[2]), RMul(R(IPow(2, state[1])), RSub(price, p_eq)))

\* The first loop of update: each weight multiplied by its likelihood.
weighByLikelihood(ps, options, measurement, price, p_eq) ==
    Force([i \in 1..Len(ps) |->
        [ps[i] EXCEPT !.weight =
            RMul(@, normalPdf(measurement, h(ps[i].state, price, p_eq),
                              Sqrt(options.measurementNoiseVar)))]])

weightSumOf(ps) == SumSeq(Force([i \in 1..Len(ps) |-> ps[i].weight]))

\* normalizeWeights that always divides by the sum.
normalizeWeightsAlwaysDividing(ps, weightSum) ==
    Force([i \in 1..Len(ps) |-> [ps[i] EXCEPT !.weight = RDiv(@, weightSum)]])

\* normalizeWeights that leaves collapsed weights as they are.
normalizeWeightsKeeping(ps, weightSum) ==
    IF GtTenTo(weightSum, WeightCollapseExp)
    THEN Force([i \in 1..Len(ps) |-> [ps[i] EXCEPT !.weight = RDiv(@, weightSum)]])
    ELSE ps

\* normalizeWeights: division by the sum when it is above 1e-9, else every
\* weight reset to 1 / numParticles.
normalizeWeights(ps, weightSum) ==
    IF GtTenTo(weightSum, WeightCollapseExp)
    THEN Force([i \in 1..Len(ps) |-> [ps[i] EXCEPT !.weight = RDiv(@, weightSum)]])
    ELSE Force([i \in 1..Len(ps) |-> [ps[i] EXCEPT !.weight = Q(1, Len(ps))]])

\* getESS: 1 / sum(w^2), or 0 when the sum of squares is below 1e-12.
getESS(ps) ==
    LET sumOfSquares == SumSeq(Force([i \in 1..Len(ps) |-> RSq(ps[i].weight)]))
    IN  IF LtTenTo(sumOfSquares, EssFloorExp) THEN R(0) ELSE RDiv(R(1), sumOfSquares)

\* A constructor whose default is numParticles.
essThresholdDefaultingToAll(options) ==
    IF IsNull(options.essThreshold) THEN R(options.numParticles)
    ELSE options.essThreshold

\* The constructor's essThreshold (line 45): options.essThreshold, or
\* numParticles / 2 when it is not configured (null here).
essThresholdOf(options) ==
    IF IsNull(options.essThreshold) THEN Q(options.numParticles, 2)
    ELSE options.essThreshold

\* cdf[i - 1] of resample: the sum of the first i weights.
cdf(ps, i) == SumSeq(Force([j \in 1..i |-> ps[j].weight]))

\* uj of resample for its j-th draw (j from 1): u0 + (j - 1) / N with
\* u0 = random / N.
uj(ps, random, j) == RAdd(RDiv(random, R(Len(ps))), Q(j - 1, Len(ps)))

\* The particle the j-th draw of resample stops at: the first whose cdf is
\* not below uj, Len(ps) + 1 when the while loop runs past the last one.
\* i only grows over the draws, and uj grows with j, so the first index
\* from the start is the first index from where the previous draw stopped.
pick(ps, random, j) ==
    IF \E i \in 1..Len(ps) : ~RGt(uj(ps, random, j), cdf(ps, i))
    THEN CHOOSE i \in 1..Len(ps) :
            /\ ~RGt(uj(ps, random, j), cdf(ps, i))
            /\ \A i2 \in 1..(i - 1) : RGt(uj(ps, random, j), cdf(ps, i2))
    ELSE Len(ps) + 1

\* The indices resample selects, <<>> when a draw runs past the last
\* particle (particles[N] is read, which throws).
resampleIndices(ps, random) ==
    IF \E j \in 1..Len(ps) : pick(ps, random, j) > Len(ps) THEN <<>>
    ELSE Force([j \in 1..Len(ps) |-> pick(ps, random, j)])

\* A resample that pushes the selected particle's own state array.
resampleSharing(ps, random) ==
    IF resampleIndices(ps, random) = <<>> THEN ps
    ELSE Force([j \in 1..Len(ps) |->
            [state |-> ps[resampleIndices(ps, random)[j]].state,
             weight |-> Q(1, Len(ps)),
             ref |-> ps[resampleIndices(ps, random)[j]].ref]])

\* resample: systematic resampling.  Every new particle gets a copy of the
\* selected state ([...state], a new array: the j-th new array is named j,
\* the old ones being dropped with the old particles) and the weight 1 / N.
\* When a draw throws the particles are left as they were.
resample(ps, random) ==
    IF resampleIndices(ps, random) = <<>> THEN ps
    ELSE Force([j \in 1..Len(ps) |->
            [state |-> ps[resampleIndices(ps, random)[j]].state,
             weight |-> Q(1, Len(ps)),
             ref |-> j]])

\* update, with what it did on the way: the particles it leaves, the
\* indices its resampling selected (<<>> when it did not resample), and
\* whether it threw (a draw of resample ran past the last particle).
updateCall(ps, options, measurement, price, p_eq, random) ==
    CHOOSE result \in
        { IF RLt(getESS(normalized), essThresholdOf(options))
          THEN [particles |-> resample(normalized, random),
                picked |-> resampleIndices(normalized, random),
                threw |-> resampleIndices(normalized, random) = <<>>]
          ELSE [particles |-> normalized, picked |-> <<>>, threw |-> FALSE] :
            normalized \in
        { normalizeWeights(weighted, weightSumOf(weighted)) : weighted \in
        { weighByLikelihood(ps, options, measurement, price, p_eq) } } } : TRUE

\* update: likelihood weighting, normalisation, then resampling when the
\* effective sample size is below the threshold.
update(ps, options, measurement, price, p_eq, random) ==
    updateCall(ps, options, measurement, price, p_eq, random).particles

\* What lastCall holds after update(measurement, p, p_eq) found the
\* particles ps and Math.random() returned random.
updateRecord(ps, measurement, price, p_eq, random, call) ==
    <<[op |-> "update", measurement |-> measurement, p |-> price,
       p_eq |-> p_eq, random |-> random, before |-> ps,
       picked |-> call.picked, threw |-> call.threw]>>

\* What the initial sampler and the process-noise sampler can draw, and
\* what can be measured: no number, the predictions of the grid, and a
\* value far from all of them.
InitialStates == {<<0, 0>>, <<1, 1>>}
ProcessNoises == {<<0, 0>>, <<0, 1>>}
Measurements  == {NaN, R(0), R(1), R(100)}
Randoms       == {R(0), Q(1, 2)}

\* The constructor: essThreshold defaults to numParticles / 2; every
\* particle is drawn from the initial distribution with weight 1 / N.
FilterInit ==
    /\ pfOptions \in
            { [numParticles |-> NumParticles, measurementNoiseVar |-> v,
               essThreshold |-> e] :
                v \in {R(1), R(0)},
                e \in {Null, R(NumParticles), R(NumParticles + 1)} }
    /\ particles \in
            { Force([i \in 1..NumParticles |->
                        [state |-> states[i], weight |-> Q(1, NumParticles),
                         ref |-> i]]) :
                states \in [1..NumParticles -> InitialStates] }
    /\ filterSteps = 0
    /\ lastCall = <<>>
    /\ indicatorOptions = <<>>
    /\ PipelineIdle /\ TemperatureIdle /\ PageIdle
    /\ EntropyIdle /\ CausalIdle /\ StatisticsIdle

\* What the filter's steps leave alone.
filterOthers ==
    <<indicatorOptions, pipelineVars, temperatureVars, pageVars, entropyVars,
      causalVars,
        statisticsVars>>

\* What component j of the state array of particle i has gained when the
\* loop of predict has added the draws of the particles 1..k: the draw of
\* every particle whose state is that array.
RECURSIVE noiseAdded(_, _, _, _, _)
noiseAdded(ps, noise, i, j, k) ==
    IF k = 0 THEN 0
    ELSE noiseAdded(ps, noise, i, j, k - 1)
            + (IF ps[k].ref = ps[i].ref THEN noise[k][j] ELSE 0)

\* predict: for every particle one draw of process noise, added in place
\* to the particle's state array.
predict(ps, noise) ==
    Force([i \in 1..Len(ps) |->
        [ps[i] EXCEPT !.state = <<@[1] + noiseAdded(ps, noise, i, 1, Len(ps)),
                                  @[2] + noiseAdded(ps, noise, i, 2, Len(ps))>>]])

\* lastCall keeps the draws, the particles found and the call before.
Predict(noise) ==
    /\ filterSteps < MaxFilterSteps
    /\ filterSteps' = filterSteps + 1
    /\ particles' = predict(particles, noise)
    /\ lastCall' = <<[op |-> "predict", noise |-> noise, before |-> particles,
                      prior |-> lastCall]>>
    /\ UNCHANGED <<pfOptions, filterOthers>>

\* update(measurement, p, p_eq), with p_eq = 1.
Update(measurement, price, random) ==
    /\ filterSteps < MaxFilterSteps
    /\ filterSteps' = filterSteps + 1
    /\ \E call \in { updateCall(particles, pfOptions, measurement, price, R(1),
                                 random) } :
            /\ particles' = call.particles
            /\ lastCall' = updateRecord(particles, measurement, price, R(1),
                                        random, call)
    /\ UNCHANGED <<pfOptions, filterOthers>>

FilterNext ==
    \/ \E noise \in [1..NumParticles -> ProcessNoises] : Predict(noise)
    \/ \E measurement \in Measurements, price \in {R(1), R(2)}, random \in Randoms :
            Update(measurement, price, random)

SpecFilter == FilterInit /\ [][FilterNext]_vars

\* C5: every particle weight is a number >= 0, the weights sum to 1, and
\* the effective sample size lies between 1 and the number of particles;
\* whatever was measured, and whether or not the weights collapsed or the
\* particles were resampled.
C5_WeightInvariants ==
    /\ \A i \in 1..Len(particles) : RLe(R(0), particles[i].weight)
    /\ weightSumOf(particles) = R(1)
    /\ RLe(R(1), getESS(particles))
    /\ RLe(getESS(particles), R(NumParticles))

\* C5 witness: after an update that did not end in a resampling or a
\* reset, two particles carry different weights, neither of them 0.
C5_Witness ==
    /\ filterSteps >= 2
    /\ \E i, j \in 1..Len(particles) :
            /\ RLt(R(0), particles[i].weight)
            /\ RLt(particles[i].weight, particles[j].weight)

\* The last call was an update.
Updated == lastCall # <<>> /\ lastCall[1].op = "update"

\* The weights the last update had after its likelihood multiplication and
\* its normalisation.
NormalizedBefore ==
    normalizeWeights(
        weighByLikelihood(lastCall[1].before, pfOptions, lastCall[1].measurement,
                          lastCall[1].p, lastCall[1].p_eq),
        weightSumOf(weighByLikelihood(lastCall[1].before, pfOptions,
                                      lastCall[1].measurement, lastCall[1].p,
                                      lastCall[1].p_eq)))

\* 1 / sum(w^2) of the particles ps.
EffectiveSampleSize(ps) ==
    RDiv(R(1), SumSeq(Force([i \in 1..Len(ps) |->
                                RMul(ps[i].weight, ps[i].weight)])))

\* The threshold in force: the configured one, numParticles / 2 without.
ThresholdAsClaimed ==
    IF IsNull(pfOptions.essThreshold) THEN Q(pfOptions.numParticles, 2)
    ELSE pfOptions.essThreshold

Resampled == Updated /\ lastCall[1].picked # <<>>

\* The cumulative weight of the first i of the particles ps.
CumulativeWeight(ps, i) == SumSeq(Force([k \in 1..i |-> ps[k].weight]))

\* The j-th position of the comb (j from 1): u0 + (j - 1) / N, u0 = random / N.
Comb(j) ==
    RAdd(RDiv(lastCall[1].random, R(Len(particles))), Q(j - 1, Len(particles)))

\* How many times particle i was selected.
TimesSelected(i) ==
    Cardinality({ j \in 1..Len(lastCall[1].picked) : lastCall[1].picked[j] = i })

\* Every draw selected the first particle whose cumulative weight is at
\* least its comb position; the indices stay in range and do not decrease.
SelectsFirstAtOrAbove ==
    \A j \in 1..Len(lastCall[1].picked) :
        /\ lastCall[1].picked[j] \in 1..Len(lastCall[1].before)
        /\ RLe(Comb(j), CumulativeWeight(NormalizedBefore, lastCall[1].picked[j]))
        /\ \A i \in 1..(lastCall[1].picked[j] - 1) :
                RLt(CumulativeWeight(NormalizedBefore, i), Comb(j))
        /\ j > 1 => lastCall[1].picked[j - 1] <= lastCall[1].picked[j]

\* The new set: as many particles as before, each of weight 1 / N and with
\* the state of the particle selected for it.
CopiesOfSelected ==
    /\ Len(particles) = Len(lastCall[1].before)
    /\ Len(lastCall[1].picked) = Len(particles)
    /\ \A j \in 1..Len(particles) :
            /\ particles[j].weight = Q(1, Len(particles))
            /\ particles[j].state = lastCall[1].before[lastCall[1].picked[j]].state

\* Particle i was selected between floor(N * w_i) and ceil(N * w_i) times.
SelectedInProportion ==
    \A i \in 1..Len(lastCall[1].before) :
        /\ IFloor(RMul(R(Len(particles)), NormalizedBefore[i].weight))
                <= TimesSelected(i)
        /\ TimesSelected(i)
                <= ICeil(RMul(R(Len(particles)), NormalizedBefore[i].weight))

\* C23: systematic resampling.  From one offset u0 in [0, 1/N) the j-th
\* draw selects the first particle whose cumulative weight is >= u0 + j/N;
\* the indices stay within range and do not decrease, the new set has N
\* particles of weight 1/N whose states are copies of the selected
\* particles' states, and particle i is selected between floor(N * w_i)
\* and ceil(N * w_i) times.
C23_SystematicResampling ==
    Resampled => SelectsFirstAtOrAbove /\ CopiesOfSelected /\ SelectedInProportion

\* The total weight the last update had after its likelihood
\* multiplication.
WeightSumBefore ==
    SumSeq(Force([i \in 1..Len(lastCall[1].before) |->
        RMul(lastCall[1].before[i].weight,
             normalPdf(lastCall[1].measurement,
                       h(lastCall[1].before[i].state, lastCall[1].p, lastCall[1].p_eq),
                       Sqrt(pfOptions.measurementNoiseVar)))]))

\* The total weight is not above 1e-9: it is NaN, or at most 1e-9.
Collapsed == IsNaN(WeightSumBefore) \/ ~GtTenTo(WeightSumBefore, WeightCollapseExp)

\* C24: weight-collapse recovery.  An update whose total weight after the
\* likelihood multiplication is not above 1e-9 (0 and NaN included) does
\* not raise and leaves numParticles particles, each of weight
\* 1 / numParticles.
C24_CollapseRecovery ==
    Updated /\ Collapsed =>
        /\ ~lastCall[1].threw
        /\ Len(particles) = pfOptions.numParticles
        /\ \A i \in 1..Len(particles) :
                particles[i].weight = Q(1, pfOptions.numParticles)

\* C24 witness: the weights had become unequal, and an update whose
\* measurement is far from every particle's prediction has reset them.
C24_Witness ==
    /\ Updated /\ Collapsed
    /\ WeightSumBefore = R(0)
    /\ lastCall[1].before[1].weight # lastCall[1].before[2].weight
    /\ particles[1].weight = Q(1, 2)

\* The last call was a predict.
Predicted == lastCall # <<>> /\ lastCall[1].op = "predict"

\* The last call was a predict that followed an update which resampled and
\* selected one particle for two of the new particles.
PredictedAfterDuplication ==
    /\ Predicted
    /\ lastCall[1].prior # <<>>
    /\ lastCall[1].prior[1].op = "update"
    /\ \E i, j \in DOMAIN lastCall[1].prior[1].picked :
            i # j /\ lastCall[1].prior[1].picked[i] = lastCall[1].prior[1].picked[j]

\* C28: no two particles share one state array, after a resampling as at
\* any other time, and a predict adds to every particle's state that
\* particle's own draw of process noise, once, and nothing else.
C28_NoStateAliasing ==
    /\ \A i, j \in 1..Len(particles) :
            i # j => particles[i].ref # particles[j].ref
    /\ Predicted =>
            \A i \in 1..Len(particles) :
                particles[i].state =
                    <<lastCall[1].before[i].state[1] + lastCall[1].noise[i][1],
                      lastCall[1].before[i].state[2] + lastCall[1].noise[i][2]>>

\* A resampling selected the same particle twice, and the predict after it
\* drew different noise for the two copies, which now differ.
C28_Witness ==
    /\ PredictedAfterDuplication
    /\ lastCall[1].prior[1].picked[1] = lastCall[1].prior[1].picked[2]
    /\ lastCall[1].noise[1] # lastCall[1].noise[2]
    /\ lastCall[1].before[1].state = lastCall[1].before[2].state
    /\ particles[1].state # particles[2].state


\* ------------------------------------------------------------------------
\* calculateCausalRollingEntropy on its own: the velocity series grows by
\* one element at a time and the whole entropy series is recomputed, as
\* calculateStateVector does on every run. The velocities of the first
\* sgWindow - 1 observations are null, so nulls come first.

MaxEntropyLen == 5

Velocities == {R(-2), R(0), R(1), R(10)}

EntropyWindows == {2, 3, 4}

\* calculateCausalRollingEntropy together with the number of bins of the
\* histogram built for each element (0 where none was built).
entropyBinsOf(series, entropyWindow) ==
    Force([i \in 1..Len(series) |->
        IF Len(series) < entropyWindow \/ i < entropyWindow THEN 0
        ELSE windowEntropy(entropyWindowOf(series, i, entropyWindow)).numBins])

EntropyInit ==
    /\ entropyInput = <<>>
    /\ entropyWindowSize \in EntropyWindows
    /\ entropyOutput = <<>>
    /\ entropyBins = <<>>
    /\ indicatorOptions = <<>>
    /\ PipelineIdle /\ TemperatureIdle /\ PageIdle /\ FilterIdle /\ CausalIdle
    /\ StatisticsIdle

ObserveVelocity(velocity) ==
    /\ Len(entropyInput) < MaxEntropyLen
    /\ IsNull(velocity) => \A i \in 1..Len(entropyInput) : IsNull(entropyInput[i])
    /\ entropyInput' = Append(entropyInput, velocity)
    /\ entropyOutput' =
            calculateCausalRollingEntropy(entropyInput', entropyWindowSize)
    /\ entropyBins' = entropyBinsOf(entropyInput', entropyWindowSize)
    /\ UNCHANGED <<entropyWindowSize, indicatorOptions, pipelineVars,
                   temperatureVars, pageVars, filterVars, causalVars,
        statisticsVars>>

EntropyNext == \E velocity \in Velocities \cup {Null} : ObserveVelocity(velocity)

SpecEntropy == EntropyInit /\ [][EntropyNext]_vars

\* The trailing window of element i, where the series is long enough.
TrailingWindow(i) ==
    IF i < entropyWindowSize THEN <<>>
    ELSE entropyWindowOf(entropyInput, i, entropyWindowSize)

\* C6: every entropy produced is at least 0 and at most log2 of the number
\* of bins of the histogram built for its window (and is 0 where no
\* histogram was built), and a window whose values are all identical has
\* entropy 0.
C6_EntropyBounds ==
    \A i \in 1..Len(entropyOutput) :
        ~IsNull(entropyOutput[i]) =>
            /\ IsFin(entropyOutput[i])
            /\ RLe(R(0), entropyOutput[i])
            /\ entropyBins[i] > 0 =>
                    RLe(entropyOutput[i], Log2Int(entropyBins[i]))
            /\ entropyBins[i] = 0 => entropyOutput[i] = R(0)
            /\ (\A a, b \in 1..Len(TrailingWindow(i)) :
                    TrailingWindow(i)[a] = TrailingWindow(i)[b])
                    => entropyOutput[i] = R(0)

\* A histogram of at least three bins with an entropy strictly inside the
\* bounds, after a constant window of numbers with entropy 0.
C6_Witness ==
    /\ \E i \in 1..Len(entropyOutput) :
            /\ entropyBins[i] >= 3
            /\ RLt(R(0), entropyOutput[i])
            /\ RLt(entropyOutput[i], Log2Int(entropyBins[i]))
    /\ \E i \in 1..Len(entropyOutput) :
            /\ i >= entropyWindowSize
            /\ \A a \in 1..entropyWindowSize :
                    TrailingWindow(i)[a] = R(1)
            /\ entropyOutput[i] = R(0)

\* C7: the entropy is null at every element whose trailing window is not
\* full of entropyWindow available velocities, and is a number, at least
\* 0, only for a full window.
C7_EntropyBurnIn ==
    \A i \in 1..Len(entropyOutput) :
        LET full == /\ i >= entropyWindowSize
                    /\ \A a \in 1..entropyWindowSize :
                            IsAvailable(TrailingWindow(i)[a])
        IN  /\ ~full => IsNull(entropyOutput[i])
            /\ ~IsNull(entropyOutput[i]) => full /\ RLe(R(0), entropyOutput[i])


\* ------------------------------------------------------------------------
\* The causal engine: calculateCausalStateVector, one pass of its loop per
\* observation, with its particle filter.

MaxCausalLen == 3

CausalPrices == {-1, 0, 2}

CausalOptions(sg, po, qw) ==
    [sgWindow |-> sg, sgPolyOrder |-> po, equilibriumWindow |-> qw]

CausalOptionChoices ==
    {CausalOptions(2, 1, 2), CausalOptions(2, 1, 3), CausalOptions(2, 2, 2)}

\* The process noise drawn for the particles in one predict.
CausalNoises ==
    { [i \in 1..NumParticles |-> <<0, 0>>],
      [i \in 1..NumParticles |-> IF i = 1 THEN <<0, 1>> ELSE <<0, 0>>] }

\* The engine's getCausalSgCoeffs: the same design matrix and normal
\* equations as the one of indicator.ts, solved with
\* math.lusolve(ATA, AT). lusolve is documented for a column vector; where
\* it rejects the w-column matrix AT it throws and the result is null.
getCausalSgCoeffsByLusolve(windowSize, polynomialOrder, takesMatrix) ==
    IF polynomialOrder >= windowSize THEN <<>>
    ELSE IF windowSize > 1 /\ ~takesMatrix THEN <<>>
    ELSE getCausalSgCoeffs(windowSize, polynomialOrder)

\* calculateCausalSgDerivative: the smoothed value and the first derivative
\* at the most recent point, or <<>> (null).
calculateCausalSgDerivative(data, windowSize, polynomialOrder, takesMatrix) ==
    LET H == getCausalSgCoeffsByLusolve(windowSize, polynomialOrder, takesMatrix)
        windowData ==
            Force([j \in 1..windowSize |-> R(data[Len(data) - windowSize + j])])
    IN  IF Len(data) < windowSize THEN <<>>
        ELSE IF H = <<>> THEN <<>>
        ELSE <<[smoothedValue |-> Dot(H[1], windowData),
                derivative    |-> IF polynomialOrder >= 1
                                  THEN Dot(H[2], windowData) ELSE R(0)]>>

\* Step 1 of the loop: the smoothed price and the velocity, and the
\* acceleration as the difference of the last two velocities. previous is
\* <<results[i-1]>>, or <<>> at i = 0.
causalDerivatives(history, previous, options, takesMatrix) ==
    LET derivative ==
            calculateCausalSgDerivative(history, options.sgWindow,
                                        options.sgPolyOrder, takesMatrix)
    IN  IF derivative = <<>> THEN NullDerivatives
        ELSE [smoothed_price |-> derivative[1].smoothedValue,
              price_velocity |-> derivative[1].derivative,
              price_acceleration |->
                  IF previous # <<>> /\ ~IsNull(previous[1].price_velocity)
                  THEN RSub(derivative[1].derivative, previous[1].price_velocity)
                  ELSE Null]

\* priceHistory.slice(-equilibriumWindow).reduce((a, b) => a + b, 0)
\*     / equilibriumWindow
causalEquilibrium(history, equilibriumWindow) ==
    LET n == IF Len(history) < equilibriumWindow THEN Len(history)
             ELSE equilibriumWindow
    IN  RDiv(SumSeq(Force([j \in 1..n |-> R(history[Len(history) - n + j])])),
             R(equilibriumWindow))

\* (volume / price) || 1 : 1 in place of 0 and of NaN.
causalMass(volume, price) ==
    LET ratio == RDiv(R(volume), R(price))
    IN  IF IsNaN(ratio) \/ ratio = R(0) THEN R(1) ELSE ratio

\* Math.exp, in the unit of h (base 2): exact at the integers, linear
\* between them.
MathExp(x) ==
    IF IsNaN(x) THEN NaN
    ELSE IF IsInf(x) THEN (IF x[1] > 0 THEN PosInf ELSE R(0))
    ELSE LET f == IFloor(x)
         IN  RMul(IF f >= 0 THEN R(IPow(2, f)) ELSE Q(1, IPow(2, -f)),
                  RAdd(R(1), RSub(x, R(f))))

\* getEstimate: the weighted mean of the particles, [k_est, F_est].
getEstimate(ps) ==
    LET estimate(j) ==
            SumSeq(Force([i \in 1..Len(ps) |->
                RMul(R(ps[i].state[j]), ps[i].weight)]))
    IN  <<MathExp(estimate(1)), estimate(2)>>

\* results[i] as data.map leaves it.
causalBlank(price, volume) ==
    [price |-> price, volume |-> volume, p_eq |-> Null, k |-> Null, F |-> Null,
     m |-> Null, potential |-> Null, momentum |-> Null, entropy |-> Null,
     temperature |-> Null, smoothed_price |-> Null, price_velocity |-> Null,
     price_acceleration |-> Null]

\* Steps 2 and 4 of the loop, given the derivatives and the particles
\* after predict and update (ran says whether the filter ran).
causalPoint(price, volume, d, options, history, ran, ps) ==
    LET p_eq  == causalEquilibrium(history, options.equilibriumWindow)
        m     == causalMass(volume, price)
        k     == IF ran THEN getEstimate(ps)[1] ELSE Null
        F     == IF ran THEN getEstimate(ps)[2] ELSE Null
        final == /\ ~IsNull(k) /\ ~IsNull(F)
                 /\ ~IsNull(d.smoothed_price) /\ ~IsNull(d.price_velocity)
    IN  [price |-> price, volume |-> volume, p_eq |-> p_eq, k |-> k, F |-> F,
         m |-> m,
         potential |->
            IF final
            THEN RSub(RMul(RMul(Q(1, 2), k), RSq(RSub(d.smoothed_price, p_eq))),
                      RMul(F, d.smoothed_price))
            ELSE Null,
         momentum |->
            IF final THEN RMul(RMul(Q(1, 2), m), RSq(d.price_velocity)) ELSE Null,
         entropy |-> Null, temperature |-> Null,
         smoothed_price |-> d.smoothed_price,
         price_velocity |-> d.price_velocity,
         price_acceleration |-> d.price_acceleration]

\* Steps 2 to 4 of the loop: the filter runs when there is an
\* acceleration to measure.
causalEstimate(d, history, options, pfOpts, ps, price, volume, noise, random) ==
    IF IsNull(d.price_acceleration)
    THEN [point |-> causalPoint(price, volume, d, options, history, FALSE, ps),
          particles |-> ps, call |-> <<>>]
    ELSE CHOOSE step \in
        { [point |-> causalPoint(price, volume, d, options, history, TRUE,
                                 c.call.particles),
           particles |-> c.call.particles,
           call |-> updateRecord(c.before, c.measurement, R(price), c.p_eq,
                                 random, c.call)] :
            c \in
        { [call |-> updateCall(moved, pfOpts, measurement, R(price), p_eq,
                               random),
           before |-> moved, measurement |-> measurement, p_eq |-> p_eq] :
            moved \in { predict(ps, noise) },
            measurement \in
                { RMul(causalMass(volume, price), d.price_acceleration) },
            p_eq \in { causalEquilibrium(history, options.equilibriumWindow) }
        } } : TRUE

\* One pass of the loop, for the price pushed last onto history: the point
\* written to results and the particles the filter is left with.
causalStep(history, previous, options, pfOpts, ps, price, volume, noise, random, takesMatrix) ==
    IF Len(history) < options.sgWindow
    THEN [point |-> causalBlank(price, volume), particles |-> ps, call |-> <<>>]
    ELSE CHOOSE step \in
        { causalEstimate(d, history, options, pfOpts, ps, price, volume, noise,
                         random) :
            d \in { causalDerivatives(history, previous, options, takesMatrix) }
        } : TRUE

\* The start of calculateCausalStateVector: the filter constructed, no
\* observation processed yet.
CausalInit ==
    /\ causalOptions \in CausalOptionChoices
    /\ lusolveTakesMatrix \in BOOLEAN
    /\ priceHistory = <<>>
    /\ results = <<>>
    /\ pfOptions = [numParticles |-> NumParticles, measurementNoiseVar |-> R(1),
                    essThreshold |-> Null]
    /\ particles =
            Force([i \in 1..NumParticles |->
                [state |-> IF i = 1 THEN <<0, 0>> ELSE <<1, 1>>,
                 weight |-> Q(1, NumParticles), ref |-> i]])
    /\ filterSteps = 0
    /\ lastCall = <<>>
    /\ indicatorOptions = <<>>
    /\ PipelineIdle /\ TemperatureIdle /\ PageIdle /\ EntropyIdle
    /\ StatisticsIdle

CausalObserve(price, volume, noise, random) ==
    /\ Len(results) < MaxCausalLen
    /\ priceHistory' = Append(priceHistory, price)
    /\ \E step \in
            { causalStep(priceHistory',
                         IF results = <<>> THEN <<>> ELSE <<results[Len(results)]>>,
                         causalOptions, pfOptions, particles, price, volume,
                         noise, random, lusolveTakesMatrix) } :
            /\ results' = Append(results, step.point)
            /\ particles' = step.particles
            /\ lastCall' = IF step.call = <<>> THEN lastCall ELSE step.call
    /\ UNCHANGED <<causalOptions, lusolveTakesMatrix, pfOptions, filterSteps,
                   indicatorOptions, pipelineVars, temperatureVars, pageVars,
                   entropyVars, statisticsVars>>

CausalNext ==
    \E price \in CausalPrices, volume \in Volumes, noise \in CausalNoises,
       random \in Randoms :
        CausalObserve(price, volume, noise, random)

SpecCausal == CausalInit /\ [][CausalNext]_vars


\* The filter ran for the observation processed last.
FilterRan ==
    /\ results # <<>> /\ ~IsNull(results[Len(results)].k)
    /\ lastCall # <<>>

\* F - k * (p - p_eq) for the particle state <<n, F>>, k = 2^n, with the
\* price and the equilibrium price of the state vector d.
MeasurementAt(state, d) ==
    RSub(R(state[2]), RMul(R(IPow(2, state[1])), RSub(R(d.price), d.p_eq)))

\* The measurement the last update predicted for the particle state.
PredictedMeasurement(state) == h(state, lastCall[1].p, lastCall[1].p_eq)

PropagatesPerField(d) ==
    /\ ~IsNull(d.potential) <=>
            /\ IsAvailable(d.k) /\ IsAvailable(d.F)
            /\ IsAvailable(d.smoothed_price) /\ IsAvailable(d.p_eq)
    /\ ~IsNull(d.momentum) <=>
            IsAvailable(d.price_velocity) /\ IsAvailable(d.m)

NeverBelowZero(x) == IsNull(x) \/ (IsFin(x) /\ RLe(R(0), x))

MassGuarded(d) ==
    /\ d.price > 0 /\ ~IsNull(d.m) => d.m = Q(d.volume, d.price)
    /\ d.price <= 0 => NeverBelowZero(d.m) /\ NeverBelowZero(d.momentum)

\* C9: the mass is the volume of the observation over its price, and for an
\* observation whose price is not positive neither the mass nor the
\* momentum is negative, NaN or infinite.
C9_MassGuard ==
    /\ \A i \in 1..Len(stateVectorData) : MassGuarded(stateVectorData[i])
    /\ \A i \in 1..Len(results) : MassGuarded(results[i])

\* The trailing window of equilibriumWindow smoothed prices that ends at t
\* is filled with available samples.
EquilibriumWindowFilled(series, t, equilibriumWindow) ==
    /\ t >= equilibriumWindow
    /\ \A j \in (t - equilibriumWindow + 1)..t :
            IsAvailable(series[j].smoothed_price)

EquilibriumBurnIn(series, options) ==
    \A t \in 1..Len(series) :
        ~EquilibriumWindowFilled(series, t, options.equilibriumWindow)
            => IsNull(series[t].p_eq)

\* C10: p_eq at t is null until the trailing equilibrium window is filled
\* with equilibriumWindow available smoothed prices, and it is computed from
\* the samples up to t only: no later observation changes it.
C10_EquilibriumEstimator ==
    /\ [](/\ EquilibriumBurnIn(stateVectorData, indicatorOptions)
          /\ EquilibriumBurnIn(results, causalOptions))
    /\ [][/\ \A t \in 1..Len(stateVectorData) :
                stateVectorData'[t].p_eq = stateVectorData[t].p_eq
          /\ \A t \in 1..Len(results) : results'[t].p_eq = results[t].p_eq]_vars


\* ---- the smoother's unavailable cases, in calculateStateVector and in
\* calculateCausalStateVector

SmootherUnavailable(d) ==
    /\ IsNull(d.smoothed_price)
    /\ IsNull(d.price_velocity)
    /\ IsNull(d.price_acceleration)

\* The order is not below the window size, or the normal-equations matrix
\* A^T A of the window is singular.
NoCoefficients(options) ==
    \/ options.sgPolyOrder >= options.sgWindow
    \/ Det(MatMul(Transpose(DesignMatrix(options.sgWindow, options.sgPolyOrder)),
                  DesignMatrix(options.sgWindow, options.sgPolyOrder))) = R(0)

\* C11: where fewer than windowSize samples exist, where the order is not
\* below the window size and where the normal-equations matrix is singular,
\* the smoothed price, the velocity and the acceleration are null, nothing
\* is thrown, and the rest of the sequence is still computed: there is a
\* state vector for every observation, with a smoothed price wherever the
\* window is full and the coefficients exist.
C11_SmootherAvailability ==
    /\ Len(stateVectorData) = Len(rawMarketData)
    /\ \A i \in 1..Len(stateVectorData) :
            IF i < indicatorOptions.sgWindow \/ NoCoefficients(indicatorOptions)
            THEN SmootherUnavailable(stateVectorData[i])
            ELSE IsFin(stateVectorData[i].smoothed_price)
    /\ Len(results) = Len(priceHistory)
    /\ \A i \in 1..Len(results) :
            i < causalOptions.sgWindow \/ NoCoefficients(causalOptions)
                => SmootherUnavailable(results[i])

\* Two observations short of the window of three, then two smoothed ones.
C11_Witness ==
    /\ Len(stateVectorData) = 4
    /\ indicatorOptions.sgWindow = 3
    /\ SmootherUnavailable(stateVectorData[1])
    /\ SmootherUnavailable(stateVectorData[2])
    /\ IsFin(stateVectorData[3].smoothed_price)
    /\ IsFin(stateVectorData[4].price_velocity)


\* ------------------------------------------------------------------------
\* statistics.ts: cholesky, and the construction of a ParticleFilter (two
\* state dimensions) from a process-noise and an initial-state covariance.

NonPositiveDefiniteMatrixError == "NonPositiveDefiniteMatrixError"

\* The entry of L that is never written because the decomposition threw.
Thrown == <<0, -2>>

\* cholesky (Cholesky-Banachiewicz): entry L[i][j], j <= i, or Thrown when
\* NonPositiveDefiniteMatrixError is raised on the way to it.
RECURSIVE choleskyEntry(_, _, _)
choleskyEntry(A, i, j) ==
    LET before == Force([k \in 1..(j - 1) |->
                    <<choleskyEntry(A, i, k), choleskyEntry(A, j, k)>>])
        thrown == \E k \in 1..(j - 1) :
                    before[k][1] = Thrown \/ before[k][2] = Thrown
        sum    == SumSeq(Force([k \in 1..(j - 1) |->
                    RMul(before[k][1], before[k][2])]))
        diagonalValue == RSub(A[i][i], sum)
        Ljj    == choleskyEntry(A, j, j)
    IN  IF thrown THEN Thrown
        ELSE IF i = j
             THEN IF RLe(diagonalValue, R(0)) THEN Thrown
                  ELSE Sqrt(diagonalValue)
        ELSE IF Ljj = Thrown \/ Ljj = R(0) THEN Thrown
        ELSE RMul(RDiv(R(1), Ljj), RSub(A[i][j], sum))

\* cholesky: the error thrown ("none" when it returns) and the
\* lower-triangular L it returns.
cholesky(A) ==
    IF Len(A) = 0 \/ \E r \in 1..Len(A) : Len(A[r]) # Len(A)
    THEN [error |-> "Error", L |-> <<>>]
    ELSE IF \E i \in 1..Len(A), j \in 1..Len(A) :
                j <= i /\ choleskyEntry(A, i, j) = Thrown
         THEN [error |-> NonPositiveDefiniteMatrixError, L |-> <<>>]
    ELSE [error |-> "none",
          L |-> Force([i \in 1..Len(A) |-> Force([j \in 1..Len(A) |->
                    IF j <= i THEN choleskyEntry(A, i, j) ELSE R(0)])])]

\* new MvNormal(mean, cov): "created", or the error cholesky throws.
MvNormalConstructor(cov) ==
    IF cholesky(cov).error = "none" THEN "created" ELSE cholesky(cov).error

\* new ParticleFilter(options), initialStateMean of length 2: the dimension
\* check, the process-noise sampler, the initial-state sampler.
ParticleFilterConstructor(options) ==
    IF Len(options.processNoiseCov) # 2 THEN "Error"
    ELSE IF MvNormalConstructor(options.processNoiseCov) # "created"
         THEN MvNormalConstructor(options.processNoiseCov)
    ELSE MvNormalConstructor(options.initialStateCov)

CovarianceEntries == {NaN, R(-1), R(0), R(1), R(4)}

Covariances ==
    { <<<<a, b>>, <<c, d>>>> :
        a \in CovarianceEntries, b \in CovarianceEntries,
        c \in CovarianceEntries, d \in CovarianceEntries }
    \cup { <<<<a>>>> : a \in CovarianceEntries }

IdentityCovariance == <<<<R(1), R(0)>>, <<R(0), R(1)>>>>

CholeskyInit ==
    /\ covariance \in
            { [processNoiseCov |-> c, initialStateCov |-> IdentityCovariance] :
                c \in Covariances }
            \cup
            { [processNoiseCov |-> IdentityCovariance, initialStateCov |-> c] :
                c \in Covariances }
    /\ constructed = "pending"
    /\ indicatorOptions = <<>>
    /\ PipelineIdle /\ TemperatureIdle /\ PageIdle /\ FilterIdle
    /\ EntropyIdle /\ CausalIdle /\ HmmIdle /\ SelectionIdle /\ ClassifierIdle
    /\ SmootherIdle

Construct ==
    /\ constructed = "pending"
    /\ constructed' = ParticleFilterConstructor(covariance)
    /\ UNCHANGED <<covariance, indicatorOptions, pipelineVars, temperatureVars,
                   pageVars, filterVars, entropyVars, causalVars, hmmVars,
                   selectionVars, classifierVars, smootherVars>>

CholeskyNext == Construct

SpecCholesky == CholeskyInit /\ [][CholeskyNext]_vars

\* A square matrix of one or two rows is positive-definite: finite,
\* symmetric, with positive leading minors.
PositiveDefinite(A) ==
    /\ \A i \in 1..Len(A), j \in 1..Len(A) : IsFin(A[i][j]) /\ A[i][j] = A[j][i]
    /\ RGt(A[1][1], R(0))
    /\ RGt(Det(A), R(0))

\* C12: a covariance that is not positive-definite makes the constructor
\* throw NonPositiveDefiniteMatrixError, so that no filter is created with
\* it.
C12_NonPositiveDefiniteRaises ==
    \/ constructed = "pending"
    \/ PositiveDefinite(covariance.processNoiseCov)
            /\ PositiveDefinite(covariance.initialStateCov)
    \/ constructed = NonPositiveDefiniteMatrixError


\* ------------------------------------------------------------------------
\* part_007: EmergentMindHMM, the Gaussian-mixture hidden Markov model.
\* Vectors are sequences of numbers, matrices sequences of rows; position t
\* stands for the code's index t - 1.

\* The number of dimensions of an observation.
dims == 4

\* Emission densities are carried in units of 10^-6: a density near the
\* responsibility guard 1e-9 has no 32-bit numerator and denominator of its
\* own. The alpha, beta, gamma and xi of eStep are ratios of densities,
\* which no unit changes; the guard of calculateGammaJm and the logarithm
\* of a scale factor are the two places where the unit is taken back out.
DensityUnitExp == 6

\* math.dotMultiply, math.multiply and math.divide on vectors.
DotMultiply(u, v) == Force([i \in 1..Len(u) |-> RMul(u[i], v[i])])
VecScale(v, c) == Force([i \in 1..Len(v) |-> RMul(v[i], c)])
VecDivide(v, c) == Force([i \in 1..Len(v) |-> RDiv(v[i], c)])
VecAdd(u, v) == Force([i \in 1..Len(u) |-> RAdd(u[i], v[i])])
VecSubtract(u, v) == Force([i \in 1..Len(u) |-> RSub(u[i], v[i])])

\* math.multiply(v, M) of a vector and a matrix: the vector v M.
VecMat(v, M) ==
    Force([c \in 1..Len(M[1]) |->
        SumSeq(Force([r \in 1..Len(v) |-> RMul(v[r], M[r][c])]))])

\* s || 1: 1 for the falsy numbers 0 and NaN.
OrOne(s) == IF s = R(0) \/ IsNaN(s) THEN R(1) ELSE s

\* floor(log2 n) of a positive integer.
RECURSIVE ILog2(_)
ILog2(n) == IF n <= 1 THEN 0 ELSE 1 + ILog2(n \div 2)

\* Math.log of a positive number n/d, as ln 2 (7/10) times the difference
\* of the whole binary logarithms of n and d; exact at 1.
MathLog(x) ==
    IF IsNaN(x) \/ RLt(x, R(0)) THEN NaN
    ELSE IF x = R(0) THEN NegInf
    ELSE IF IsInf(x) THEN PosInf
    ELSE RMul(Q(7, 10), R(ILog2(x[1]) - ILog2(x[2])))

\* Math.log(s || 1) of a scale factor s held in units of 10^-DensityUnitExp,
\* ln 10 taken as 23/10.
ScaleLog(s) ==
    IF s = R(0) \/ IsNaN(s) THEN R(0)
    ELSE RSub(MathLog(s), RMul(R(DensityUnitExp), Q(23, 10)))

\* Math.exp of a number x <= 0, rounded down to a power of two:
\* 2^floor(x * log2 e), log2 e taken as 13/9; never 0 for a finite x.
ExpPow2(x) ==
    IF IsNaN(x) THEN NaN
    ELSE IF IsInf(x) THEN (IF x[1] > 0 THEN PosInf ELSE R(0))
    ELSE LET e == IFloor(RMul(x, Q(13, 9)))
         IN  IF e >= 0 THEN R(IPow(2, e)) ELSE Q(1, IPow(2, -e))

\* math.mean(dataMatrix, 0): the mean of each column.
ColumnMeans(data) ==
    Force([c \in 1..Len(data[1]) |->
        RDiv(SumSeq(Force([t \in 1..Len(data) |-> data[t][c]])), R(Len(data)))])

\* math.cov(dataMatrix): the sample covariance of the columns (divisor
\* T - 1).
MathCov(data) ==
    LET mean == ColumnMeans(data)
    IN  Force([a \in 1..Len(data[1]) |-> Force([b \in 1..Len(data[1]) |->
            RDiv(SumSeq(Force([t \in 1..Len(data) |->
                    RMul(RSub(data[t][a], mean[a]), RSub(data[t][b], mean[b]))])),
                 R(Len(data) - 1))])])

\* initializeParameters: uniform pi, A and mixWeights; every mean the global
\* mean plus the perturbation drawn for it; every covariance the global one.
initializeParameters(data, states, mixtures, perturbation) ==
    [pi |-> Force([j \in 1..states |-> Q(1, states)]),
     A |-> Force([i \in 1..states |-> Force([j \in 1..states |-> Q(1, states)])]),
     mixWeights |->
        Force([j \in 1..states |-> Force([m \in 1..mixtures |-> Q(1, mixtures)])]),
     means |->
        Force([j \in 1..states |-> Force([m \in 1..mixtures |->
            VecAdd(ColumnMeans(data), perturbation[j][m])])]),
     covariances |->
        Force([j \in 1..states |-> Force([m \in 1..mixtures |-> MathCov(data)])])]

\* M once the first row with a non-zero first entry, row r, has cleared the
\* first column of the other rows; row r and the first column left out.
Eliminated(M, r) ==
    LET row(i) == IF i < r THEN i ELSE i + 1
    IN  Force([i \in 1..(Len(M) - 1) |-> Force([c \in 1..(Len(M) - 1) |->
            RSub(M[row(i)][c + 1],
                 RMul(RDiv(M[row(i)][1], M[r][1]), M[r][c + 1]))])])

\* math.det, by elimination: 0 when a column has no pivot.
RECURSIVE MathDet(_)
MathDet(M) ==
    IF Len(M) = 1 THEN M[1][1]
    ELSE IF \A q \in 1..Len(M) : M[q][1] = R(0) THEN R(0)
    ELSE CHOOSE d \in
            { RMul(IF r % 2 = 1 THEN M[r][1] ELSE RNeg(M[r][1]), MathDet(reduced)) :
                r \in { CHOOSE q \in 1..Len(M) :
                            M[q][1] # R(0) /\ \A k \in 1..(q - 1) : M[k][1] = R(0) },
                reduced \in
                    { Eliminated(M, CHOOSE q \in 1..Len(M) :
                            M[q][1] # R(0) /\ \A k \in 1..(q - 1) : M[k][1] = R(0)) } } : TRUE

\* math.inv of a covariance: <<>> for the exception thrown when the
\* determinant is zero.
covarianceInv(cov) == IF MathDet(cov) = R(0) THEN <<>> ELSE MathInv(cov)

\* multivariateGaussianPdf once math.inv(cov) and math.det(cov) are known:
\* 0 when math.inv threw (invCov = <<>>) or the determinant is <= 0, else
\* coefficient * exp(-0.5 * diff invCov diff^T), (2 pi)^(k/2) taken as 79/2
\* for k = 4. The value is in units of 10^-DensityUnitExp.
gaussianWith(x, mean, invCov, detCov) ==
    IF invCov = <<>> THEN R(0)
    ELSE IF RLe(detCov, R(0)) THEN R(0)
    ELSE LET diff == VecSubtract(x, mean)
             exponent == RMul(Q(-1, 2), Dot(VecMat(diff, invCov), diff))
             coefficient == RDiv(R(IPow(10, DensityUnitExp)),
                                 RMul(Q(79, 2), Sqrt(detCov)))
         IN  RMul(coefficient, ExpPow2(exponent))

multivariateGaussianPdf(x, mean, cov) ==
    gaussianWith(x, mean, covarianceInv(cov), MathDet(cov))

\* multivariateGaussianPdf(data[t], mean, cov) for every t.
gaussianSeries(data, mean, cov) ==
    CHOOSE r \in
        { Force([t \in 1..Len(data) |-> gaussianWith(data[t], mean, ic[1], ic[2])]) :
            ic \in { <<covarianceInv(cov), MathDet(cov)>> } } : TRUE

\* mixWeights[j][m] * multivariateGaussianPdf(data[t], means[j][m],
\* covariances[j][m]), indexed [j][m][t].
componentEmissions(data, p) ==
    Force([j \in 1..Len(p.pi) |-> Force([m \in 1..Len(p.mixWeights[j]) |->
        VecScale(gaussianSeries(data, p.means[j][m], p.covariances[j][m]),
                 p.mixWeights[j][m])])])

\* calculateAllEmissionProbs, from the component emissions: indexed [t][j].
calculateAllEmissionProbs(T, emissions) ==
    Force([t \in 1..T |-> Force([j \in 1..Len(emissions) |->
        SumSeq(Force([m \in 1..Len(emissions[j]) |-> emissions[j][m][t]]))])])

\* The alpha pass from row t on: rows holds [alpha, scale] for the rows
\* before t. Row 1 is divided by its sum, the later ones by (sum || 1).
RECURSIVE alphaPass(_, _, _, _)
alphaPass(p, emissionProbs, t, rows) ==
    IF t > Len(emissionProbs) THEN rows
    ELSE CHOOSE r \in
            { alphaPass(p, emissionProbs, t + 1,
                  Append(rows, [alpha |-> VecDivide(alpha_t,
                                    IF t = 1 THEN SumSeq(alpha_t)
                                    ELSE OrOne(SumSeq(alpha_t))),
                                scale |-> SumSeq(alpha_t)])) :
                alpha_t \in
                    { DotMultiply(IF t = 1 THEN p.pi
                                  ELSE VecMat(rows[t - 1].alpha, p.A),
                                  emissionProbs[t]) } } : TRUE

\* The beta pass from row t down: later holds the rows after t, first one
\* first. The last row is all ones.
RECURSIVE betaPass(_, _, _, _, _)
betaPass(p, emissionProbs, scaleFactors, t, later) ==
    IF t = 0 THEN later
    ELSE CHOOSE r \in
            { betaPass(p, emissionProbs, scaleFactors, t - 1, <<beta_t>> \o later) :
                beta_t \in
                    { IF t = Len(emissionProbs)
                      THEN Force([j \in 1..Len(p.pi) |-> R(1)])
                      ELSE VecDivide(
                              VecMat(DotMultiply(later[1], emissionProbs[t + 1]),
                                     Transpose(p.A)),
                              OrOne(scaleFactors[t + 1])) } } : TRUE

\* xi[t]: diag(alpha_t) A diag(beta_t+1) diag(emission_t+1), divided by
\* (its sum || 1).
xiAt(p, alpha_row, beta_row, emission_row) ==
    CHOOSE r \in
        { Force([i \in 1..Len(term3) |->
              VecDivide(term3[i], OrOne(SumSeq(Force([k \in 1..Len(term3) |->
                                                    SumSeq(term3[k])]))))]) :
            term3 \in
                { Force([i \in 1..Len(p.pi) |-> Force([j \in 1..Len(p.pi) |->
                    RMul(RMul(RMul(alpha_row[i], p.A[i][j]), beta_row[j]),
                         emission_row[j])])]) } } : TRUE

\* The exponent of the guard 1e-9 on the responsibility masses.
ResponsibilityEpsilonExp == 9

\* calculateGammaJm: gamma[t][j] shared among the components of state j in
\* proportion to their emissions; all zero when their sum is <= 1e-9 (that
\* is 10^-(9 - DensityUnitExp) units).
calculateGammaJm(gamma, emissions, emissionProbs) ==
    Force([t \in 1..Len(gamma) |-> Force([j \in 1..Len(emissions) |->
        Force([m \in 1..Len(emissions[j]) |->
            IF GtTenTo(emissionProbs[t][j],
                       ResponsibilityEpsilonExp - DensityUnitExp)
            THEN RMul(gamma[t][j], RDiv(emissions[j][m][t], emissionProbs[t][j]))
            ELSE R(0)])])])

\* The scaled alpha rows (with their scale factors) and the beta rows.
forwardBackward(p, emissionProbs) ==
    CHOOSE r \in
        { <<al, betaPass(p, emissionProbs,
                    Force([t \in 1..Len(al) |-> al[t].scale]),
                    Len(emissionProbs), <<>>)>> :
            al \in { alphaPass(p, emissionProbs, 1, <<>>) } } : TRUE

\* The Responsibilities eStep returns, from the two passes ab.
responsibilitiesOf(p, emissions, emissionProbs, ab) ==
    CHOOSE r \in
        { [gamma |-> gm,
           xi |-> Force([t \in 1..(Len(emissionProbs) - 1) |->
                    xiAt(p, ab[1][t].alpha, ab[2][t + 1], emissionProbs[t + 1])]),
           gammaJm |-> calculateGammaJm(gm, emissions, emissionProbs),
           logLikelihood |->
                SumSeq(Force([t \in 1..Len(emissionProbs) |->
                    ScaleLog(ab[1][t].scale)]))] :
            gm \in { Force([t \in 1..Len(emissionProbs) |->
                        DotMultiply(ab[1][t].alpha, ab[2][t])]) } } : TRUE

\* eStep once the emissions are known.
eStepWith(p, emissions, emissionProbs) ==
    CHOOSE r \in
        { responsibilitiesOf(p, emissions, emissionProbs, ab) :
            ab \in { forwardBackward(p, emissionProbs) } } : TRUE

\* eStep: gamma, xi, gammaJm and the log-likelihood of data under p.
eStep(data, p) ==
    CHOOSE r \in UNION
        { { eStepWith(p, emissions, emissionProbs) :
                emissionProbs \in { calculateAllEmissionProbs(Len(data), emissions) } } :
            emissions \in { componentEmissions(data, p) } } : TRUE

\* math.multiply(math.transpose(diff), diff) of a one-dimensional diff:
\* math.transpose leaves a vector as it is, and the product of two vectors
\* is their dot product, a number.
outerProduct(diff) == Dot(diff, diff)

\* The new mean of component [j][m]: the gammaJm-weighted mean of the data.
newMeanOf(data, gammaJm, j, m, componentRespSum) ==
    VecDivide(
        Force([c \in 1..dims |->
            SumSeq(Force([t \in 1..Len(data) |->
                RMul(data[t][c], gammaJm[t][j][m])]))]),
        componentRespSum)

\* The new covariance of component [j][m]: math.zeros(dims, dims) plus, for
\* every t, the number outerProduct * gammaJm[t][j][m] (math.add adds a
\* number to every entry of a matrix); divided by componentRespSum.
newCovarianceOf(data, gammaJm, j, m, componentRespSum, newMean) ==
    CHOOSE r \in
        { Force([a \in 1..dims |-> Force([b \in 1..dims |->
              RDiv(RAdd(R(0), weighted), componentRespSum)])]) :
            weighted \in
                { SumSeq(Force([t \in 1..Len(data) |->
                    RMul(outerProduct(VecSubtract(data[t], newMean)),
                         gammaJm[t][j][m])])) } } : TRUE

\* mStep: pi from gamma[0]; each row of A, each mixture weight, mean and
\* covariance re-estimated when its denominator is > 1e-9, kept otherwise.
mStep(data, p, resp) ==
    LET T == Len(data)
        states == Len(p.pi)
        gammaSumOverT_minus_1 ==
            Force([i \in 1..states |->
                SumSeq(Force([t \in 1..(T - 1) |-> resp.gamma[t][i]]))])
        xiSumOverT ==
            Force([i \in 1..states |-> Force([j \in 1..states |->
                SumSeq(Force([t \in 1..(T - 1) |-> resp.xi[t][i][j]]))])])
        gammaSumOverT ==
            Force([j \in 1..states |->
                SumSeq(Force([t \in 1..T |-> resp.gamma[t][j]]))])
        componentRespSum ==
            Force([j \in 1..states |-> Force([m \in 1..Len(p.mixWeights[j]) |->
                SumSeq(Force([t \in 1..T |-> resp.gammaJm[t][j][m]]))])])
        updated(j, m) == GtTenTo(componentRespSum[j][m], ResponsibilityEpsilonExp)
        newMeans ==
            Force([j \in 1..states |-> Force([m \in 1..Len(p.mixWeights[j]) |->
                IF updated(j, m)
                THEN newMeanOf(data, resp.gammaJm, j, m, componentRespSum[j][m])
                ELSE p.means[j][m]])])
    IN  [pi |-> resp.gamma[1],
         A |-> Force([i \in 1..states |->
                IF GtTenTo(gammaSumOverT_minus_1[i], ResponsibilityEpsilonExp)
                THEN VecDivide(xiSumOverT[i], gammaSumOverT_minus_1[i])
                ELSE p.A[i]]),
         mixWeights |->
            Force([j \in 1..states |-> Force([m \in 1..Len(p.mixWeights[j]) |->
                IF GtTenTo(gammaSumOverT[j], ResponsibilityEpsilonExp)
                THEN RDiv(componentRespSum[j][m], gammaSumOverT[j])
                ELSE p.mixWeights[j][m]])]),
         means |-> newMeans,
         covariances |->
            Force([j \in 1..states |-> Force([m \in 1..Len(p.mixWeights[j]) |->
                IF updated(j, m)
                THEN newCovarianceOf(data, resp.gammaJm, j, m,
                                     componentRespSum[j][m], newMeans[j][m])
                ELSE p.covariances[j][m]])])]


\* ------------------------------------------------- the model being fitted

\* The largest cap given to fit.
MaxFitIter == 4

\* The exponent of the default tolerance 1e-5.
ToleranceExp == 5

\* Five points in general position (their covariance is invertible).
Simplex ==
    <<<<R(0), R(0), R(0), R(0)>>, <<R(1), R(0), R(0), R(0)>>,
      <<R(0), R(1), R(0), R(0)>>, <<R(0), R(0), R(1), R(0)>>,
      <<R(0), R(0), R(0), R(1)>>>>

\* Three points whose last three coordinates never change (their covariance
\* is singular).
Flat ==
    <<<<R(0), R(0), R(0), R(0)>>, <<R(1), R(0), R(0), R(0)>>,
      <<R(3), R(0), R(0), R(0)>>>>

\* Five points in general position of which the first coordinate varies
\* little against a perturbation of 0.1.
Narrow ==
    <<<<R(0), R(0), R(0), R(0)>>, <<Q(1, 15), R(0), R(0), R(0)>>,
      <<R(0), R(10), R(0), R(0)>>, <<R(0), R(0), R(10), R(0)>>,
      <<R(0), R(0), R(0), R(10)>>>>

DataSets == {Simplex, Flat, Narrow}

\* math.random([dims], -0.1, 0.1): the perturbation of one mean.
Perturbations ==
    { <<R(0), R(0), R(0), R(0)>>, <<Q(1, 10), R(0), R(0), R(0)>>,
      <<R(0), Q(-1, 10), R(0), R(0)>> }

\* The perturbations drawn for the means of a model fitted to data: any for
\* Simplex and Flat, the same one for every mean for Narrow (the posteriors
\* of means at different distances from Narrow have no 32-bit
\* representation).
PerturbationChoices(data, states, mixtures) ==
    IF data = Narrow
    THEN { [j \in 1..states |-> [m \in 1..mixtures |-> d]] : d \in Perturbations }
    ELSE [1..states -> [1..mixtures -> Perturbations]]

HmmInit ==
    /\ nStates = 2
    /\ nMix \in {1, 2}
    /\ params = <<>>
    /\ maxIter = 100
    /\ hmmData = <<>>
    /\ iteration = 0
    /\ previousLogLikelihood = NegInf
    /\ fitState = "constructed"
    /\ fitResult = Null
    /\ predicted = [error |-> "pending", T |-> 0, gamma |-> <<>>]
    /\ mathCovDefined \in BOOLEAN
    /\ indicatorOptions = <<>>
    /\ PipelineIdle /\ TemperatureIdle /\ PageIdle /\ FilterIdle
    /\ EntropyIdle /\ CausalIdle /\ CholeskyIdle
    /\ SelectionIdle /\ ClassifierIdle /\ SmootherIdle

hmmOthers ==
    <<indicatorOptions, pipelineVars, temperatureVars, pageVars, filterVars,
      entropyVars, causalVars, choleskyVars, selectionVars, classifierVars,
      smootherVars>>

\* fit, up to its loop: the arguments stored and the parameters initialized
\* (math.cov is called on the way, and a build without it throws there).
BeginFit(data, cap, perturbation) ==
    /\ fitState = "constructed"
    /\ maxIter' = cap
    /\ hmmData' = data
    /\ IF mathCovDefined
       THEN /\ params' = initializeParameters(data, nStates, nMix, perturbation)
            /\ fitState' = "fitting"
       ELSE /\ params' = params
            /\ fitState' = "threw"
    /\ UNCHANGED <<nStates, nMix, iteration, previousLogLikelihood, fitResult,
                   predicted, mathCovDefined, hmmOthers>>

\* A convergence test that forgets the previous log-likelihood:
\* Math.abs(logLikelihood) < this.tolerance
ConvergedOnMagnitude(logLikelihood, previous) ==
    LtTenTo(RAbs(logLikelihood), ToleranceExp)

\* Math.abs(logLikelihood - previousLogLikelihood) < this.tolerance
Converged(logLikelihood, previous) ==
    LtTenTo(RAbs(RSub(logLikelihood, previous)), ToleranceExp)

\* The state of fit after one more pass of its loop over resp = eStep(...):
\* mStep, then the return on convergence, or the return of
\* previousLogLikelihood when that was the last pass.
fitPass(resp) ==
    /\ params' = mStep(hmmData, params, resp)
    /\ iteration' = iteration + 1
    /\ IF Converged(resp.logLikelihood, previousLogLikelihood)
       THEN /\ fitState' = "returned"
            /\ fitResult' = resp.logLikelihood
            /\ previousLogLikelihood' = previousLogLikelihood
       ELSE /\ previousLogLikelihood' = resp.logLikelihood
            /\ fitState' = IF iteration + 1 < maxIter THEN "fitting" ELSE "returned"
            /\ fitResult' = IF iteration + 1 < maxIter THEN fitResult
                            ELSE resp.logLikelihood

\* One pass of the loop of fit.
Iterate ==
    /\ fitState = "fitting"
    /\ iteration < maxIter
    /\ \E resp \in { eStep(hmmData, params) } : fitPass(resp)
    /\ UNCHANGED <<nStates, nMix, maxIter, hmmData, predicted, mathCovDefined,
                   hmmOthers>>

\* predict_proba(data): throws on a model without parameters, else returns
\* the gamma of one eStep. T is the length of the sequence it was given.
PredictProba(data) ==
    /\ fitState # "fitting"
    /\ predicted.error = "pending"
    /\ predicted' =
            IF params = <<>>
            THEN [error |-> "Error", T |-> Len(data), gamma |-> <<>>]
            ELSE [error |-> "none", T |-> Len(data),
                  gamma |-> eStep(data, params).gamma]
    /\ UNCHANGED <<nStates, nMix, params, maxIter, hmmData, iteration,
                   previousLogLikelihood, fitState, fitResult, mathCovDefined,
                   hmmOthers>>

HmmNext ==
    \/ \E data \in DataSets, cap \in 1..MaxFitIter :
          \E perturbation \in PerturbationChoices(data, nStates, nMix) :
            BeginFit(data, cap, perturbation)
    \/ Iterate
    \/ \E data \in DataSets : PredictProba(data)

SpecHmm == HmmInit /\ [][HmmNext]_vars


\* A probability vector: numbers >= 0 that sum to 1.
Stochastic(v) ==
    /\ \A i \in 1..Len(v) : IsFin(v[i]) /\ RLe(R(0), v[i])
    /\ SumSeq(v) = R(1)

\* C13: once initialized, and after every pass of the loop of fit, pi and
\* every row of A are probability vectors.
C13_Stochasticity ==
    params # <<>> =>
        /\ Stochastic(params.pi)
        /\ \A i \in 1..Len(params.A) : Stochastic(params.A[i])


\* C14: once initialized, and after every mStep, the mixture weights of
\* every state are a probability vector.
C14_MixtureWeights ==
    params # <<>> =>
        \A j \in 1..Len(params.mixWeights) : Stochastic(params.mixWeights[j])


\* The gammaJm-weighted average of the outer products
\* (x_t - mean)(x_t - mean)^T of component [j][m].
WeightedOuterProducts(data, gammaJm, j, m, mean) ==
    LET componentRespSum == SumSeq(Force([t \in 1..Len(data) |-> gammaJm[t][j][m]]))
    IN  Force([a \in 1..dims |-> Force([b \in 1..dims |->
            RDiv(SumSeq(Force([t \in 1..Len(data) |->
                    RMul(RMul(RSub(data[t][a], mean[a]), RSub(data[t][b], mean[b])),
                         gammaJm[t][j][m])])),
                 componentRespSum)])])

\* A dims x dims symmetric matrix of finite entries whose leading minors
\* are all positive.
SymmetricPositiveDefinite(M) ==
    /\ Len(M) = dims
    /\ \A a \in 1..dims : Len(M[a]) = dims
    /\ \A a \in 1..dims, b \in 1..dims : IsFin(M[a][b]) /\ M[a][b] = M[b][a]
    /\ \A n \in 1..dims :
            RGt(MathDet(Force([a \in 1..n |-> Force([b \in 1..n |-> M[a][b]])])), R(0))

\* C15: a pass of the loop of fit leaves every covariance symmetric
\* positive-definite, and a covariance it has re-estimated is the
\* gammaJm-weighted average of the outer products about the new mean.
C15_Covariances ==
    [][fitState = "fitting" =>
        \A j \in 1..nStates, m \in 1..nMix :
            /\ SymmetricPositiveDefinite(params'.covariances[j][m])
            /\ params'.covariances[j][m] # params.covariances[j][m] =>
                    params'.covariances[j][m] =
                        WeightedOuterProducts(hmmData,
                            eStep(hmmData, params).gammaJm, j, m,
                            params'.means[j][m])]_vars


\* What one pass of the loop of fit must do, given the log-likelihood ll of
\* its eStep: count one more iteration; return exactly when ll is within
\* the tolerance of the previous log-likelihood or the cap is reached; and
\* return ll, the last log-likelihood achieved, without throwing.
PassAsClaimed(ll) ==
    /\ iteration' = iteration + 1
    /\ fitState' \in {"fitting", "returned"}
    /\ fitState' = "returned" <=>
            \/ LtTenTo(RAbs(RSub(ll, previousLogLikelihood)), ToleranceExp)
            \/ iteration' = maxIter
    /\ fitState' = "returned" => fitResult' = ll

\* C16: fit never runs more than maxIter passes (it is still in its loop
\* only before the cap), and each pass returns exactly at convergence or at
\* the cap, with the last log-likelihood.
C16_Termination ==
    /\ [](iteration <= maxIter /\ (fitState = "fitting" => iteration < maxIter))
    /\ [][fitState = "fitting" =>
            PassAsClaimed(eStep(hmmData, params).logLikelihood)]_vars

\* fit has returned at the cap, after a pass that had not converged.
C16_Witness ==
    /\ fitState = "returned"
    /\ iteration = maxIter
    /\ IsFin(fitResult) /\ fitResult # R(0)


\* C17: predict_proba raises on a model whose parameters were never set;
\* on a fitted model it returns one posterior vector per observation, each
\* of length nStates, non-negative and summing to 1; the parameters are left
\* as they were.
C17_PredictProba ==
    [][predicted' # predicted =>
        /\ params' = params
        /\ IF params = <<>>
           THEN predicted'.error = "Error"
           ELSE /\ predicted'.error = "none"
                /\ Len(predicted'.gamma) = predicted'.T
                /\ \A t \in 1..Len(predicted'.gamma) :
                        /\ Len(predicted'.gamma[t]) = nStates
                        /\ Stochastic(predicted'.gamma[t])]_vars

\* -------------------------------------------------- model-selection.ts

\* fit from its first pass on: passes i, i + 1, ... of the loop over the
\* parameters p, up to the cap; the parameters left and the value returned.
RECURSIVE fitLoop(_, _, _, _, _)
fitLoop(data, p, previous, i, cap) ==
    IF i >= cap THEN [params |-> p, logLikelihood |-> previous]
    ELSE CHOOSE r \in
            { IF Converged(resp.logLikelihood, previous)
              THEN [params |-> mStep(data, p, resp),
                    logLikelihood |-> resp.logLikelihood]
              ELSE fitLoop(data, mStep(data, p, resp), resp.logLikelihood,
                           i + 1, cap) :
                resp \in { eStep(data, p) } } : TRUE

\* The default of the parameter maxIter of fit.
DefaultMaxIter == 100

\* new EmergentMindHMM(states, mixtures).fit(data), in a build whose mathjs
\* provides cov: the model left and the log-likelihood returned.
fit(data, states, mixtures, perturbation) ==
    fitLoop(data, initializeParameters(data, states, mixtures, perturbation),
            NegInf, 0, DefaultMaxIter)

\* The count for diagonal covariances: D parameters each.
calculateFreeParametersDiagonal(states, mixtures, d) ==
    (states - 1) + states * (states - 1) + states * (mixtures - 1)
        + states * mixtures * d + states * mixtures * d

calculateFreeParameters(states, mixtures, d) ==
    LET piParams   == states - 1
        aParams    == states * (states - 1)
        cParams    == states * (mixtures - 1)
        meanParams == states * mixtures * d
        covParams  == states * mixtures * ((d * (d + 1)) \div 2)
    IN  piParams + aParams + cParams + meanParams + covParams

calculateBIC(model, logLikelihood, nObservations) ==
    LET K == calculateFreeParameters(model.nStates, model.nMix, dims)
    IN  RSub(RMul(R(K), MathLog(R(nObservations))), RMul(R(2), logLikelihood))

\* The longest k_range.
MaxCandidates == 2

\* The numbers of states offered as candidates.
CandidateStates == {2, 3}

KRanges == UNION { [1..n -> CandidateStates] : n \in 0..MaxCandidates }

\* The log-likelihoods and numbers of observations calculateBIC is applied to.
LogLikelihoods == {NegInf, Q(-44, 5), Q(-1, 2), R(0), R(3)}
Observations == {1, 3, 5}

SelectionInit ==
    /\ k_range \in KRanges
    /\ selectionData \in DataSets
    /\ candidate = 0
    /\ bestModel = <<>> /\ bestK = -1 /\ bestBic = PosInf
    /\ scored = <<>>
    /\ fitReturned = <<>>
    /\ selection = "running"
    /\ bicScore = <<>>
    /\ nStates = 0 /\ nMix = 0 /\ params = <<>> /\ maxIter = 0
    /\ hmmData = <<>> /\ iteration = 0 /\ previousLogLikelihood = NegInf
    /\ fitState = "constructed" /\ fitResult = Null
    /\ predicted = [error |-> "pending", T |-> 0, gamma |-> <<>>]
    /\ mathCovDefined \in BOOLEAN
    /\ indicatorOptions = <<>>
    /\ PipelineIdle /\ TemperatureIdle /\ PageIdle /\ FilterIdle
    /\ EntropyIdle /\ CausalIdle /\ CholeskyIdle /\ ClassifierIdle
    /\ SmootherIdle

selectionOthers ==
    <<indicatorOptions, pipelineVars, temperatureVars, pageVars, filterVars,
      entropyVars, causalVars, choleskyVars, hmmVars, classifierVars,
      smootherVars>>

\* The body of the loop of findOptimalHMM for a model fitted with the given
\* log-likelihood: the candidate is scored and kept when its score is less
\* than the best so far.
scoreCandidate(model, logLikelihood) ==
    IF RGt(logLikelihood, NegInf)
    THEN LET bic == calculateBIC(model, logLikelihood, Len(selectionData))
         IN  /\ scored' = Append(scored, [k |-> model.nStates,
                                          logLikelihood |-> logLikelihood,
                                          bic |-> bic])
             /\ IF RLt(bic, bestBic)
                THEN bestBic' = bic /\ bestK' = model.nStates /\ bestModel' = model
                ELSE UNCHANGED <<bestBic, bestK, bestModel>>
    ELSE UNCHANGED <<scored, bestBic, bestK, bestModel>>

\* One pass of the loop of findOptimalHMM: the next candidate is fitted
\* (which throws in a build without math.cov) and scored.
TrainCandidate ==
    /\ selection = "running"
    /\ candidate < Len(k_range)
    /\ IF mathCovDefined
       THEN /\ \E perturbation \in
                    PerturbationChoices(selectionData, k_range[candidate + 1], 1) :
                 \E fitted \in { fit(selectionData, k_range[candidate + 1], 1,
                                     perturbation) } :
                    /\ scoreCandidate([nStates |-> k_range[candidate + 1],
                                        nMix |-> 1], fitted.logLikelihood)
                    /\ fitReturned' = Append(fitReturned, fitted.logLikelihood)
            /\ candidate' = candidate + 1
            /\ selection' = selection
       ELSE /\ selection' = "TypeError"
            /\ UNCHANGED <<candidate, scored, fitReturned, bestBic, bestK,
                           bestModel>>
    /\ UNCHANGED <<k_range, selectionData, bicScore, selectionOthers>>

\* What fit can hand back to the loop: no number, the infinities, and
\* finite log-likelihoods.
FitOutcomes == {NaN, NegInf, PosInf, Q(-44, 5), R(0)}

\* One pass of the loop of findOptimalHMM over a candidate whose fit
\* returned the given number.
CandidateFitted(logLikelihood) ==
    /\ selection = "running"
    /\ candidate < Len(k_range)
    /\ scoreCandidate([nStates |-> k_range[candidate + 1], nMix |-> 1],
                      logLikelihood)
    /\ fitReturned' = Append(fitReturned, logLikelihood)
    /\ candidate' = candidate + 1
    /\ UNCHANGED <<k_range, selectionData, selection, bicScore, selectionOthers>>

\* An end of findOptimalHMM that returns whatever bestModel holds.
ReturnWithoutCheck ==
    /\ selection = "running"
    /\ candidate = Len(k_range)
    /\ selection' = "returned"
    /\ UNCHANGED <<k_range, selectionData, candidate, bestModel, bestK, bestBic,
                   scored, fitReturned, bicScore, selectionOthers>>

\* The end of findOptimalHMM: the best model is returned, or an Error is
\* thrown when there is none.
ReturnBest ==
    /\ selection = "running"
    /\ candidate = Len(k_range)
    /\ selection' = IF bestModel = <<>> THEN "Error" ELSE "returned"
    /\ UNCHANGED <<k_range, selectionData, candidate, bestModel, bestK, bestBic,
                   scored, fitReturned, bicScore, selectionOthers>>

\* calculateBIC applied to a model of the given shape.
Score(states, mixtures, logLikelihood, nObservations) ==
    /\ selection # "running"
    /\ bicScore = <<>>
    /\ bicScore' =
            [nStates |-> states, nMix |-> mixtures,
             logLikelihood |-> logLikelihood, nObservations |-> nObservations,
             bic |-> calculateBIC([nStates |-> states, nMix |-> mixtures],
                                  logLikelihood, nObservations)]
    /\ UNCHANGED <<k_range, selectionData, candidate, bestModel, bestK, bestBic,
                   scored, fitReturned, selection, selectionOthers>>

SelectionNext ==
    \/ TrainCandidate
    \/ ReturnBest
    \/ \E states \in 1..3, mixtures \in 1..2, logLikelihood \in LogLikelihoods,
          nObservations \in Observations :
            Score(states, mixtures, logLikelihood, nObservations)

SpecSelection == SelectionInit /\ [][SelectionNext]_vars

\* findOptimalHMM over everything fit can hand back: the loop applied to
\* candidates whose log-likelihoods are given.
CandidatesNext ==
    \/ \E logLikelihood \in FitOutcomes : CandidateFitted(logLikelihood)
    \/ ReturnBest

SpecCandidates == SelectionInit /\ [][CandidatesNext]_vars

\* BIC = K ln(T) - 2 ln(L), with K = (k-1) + k(k-1) + k(M-1) + kMD + kMD(D+1)/2
\* and D = 4.
BicAsClaimed(k, M, lnL, T) ==
    RSub(RMul(R((k - 1) + k * (k - 1) + k * (M - 1) + k * M * 4
                + (k * M * 4 * (4 + 1)) \div 2),
              MathLog(R(T))),
         RMul(R(2), lnL))

\* C18: every score is K ln(T) - 2 ln(L) with the K of the free parameters;
\* what findOptimalHMM returns is a scored candidate, its model and its
\* score, and no scored candidate has a smaller score.
C18_BicSelection ==
    /\ bicScore # <<>> =>
            bicScore.bic = BicAsClaimed(bicScore.nStates, bicScore.nMix,
                                        bicScore.logLikelihood,
                                        bicScore.nObservations)
    /\ \A i \in 1..Len(scored) :
            scored[i].bic = BicAsClaimed(scored[i].k, 1, scored[i].logLikelihood,
                                         Len(selectionData))
    /\ selection = "returned" /\ selectionData # <<>> =>
        /\ Len(scored) = Len(k_range)
        /\ \A i \in 1..Len(scored) :
                scored[i].k = k_range[i] /\ RLe(bestBic, scored[i].bic)
        /\ \E i \in 1..Len(scored) :
                /\ scored[i].k = bestK /\ scored[i].bic = bestBic
                /\ bestModel.nStates = bestK

\* A second candidate with fewer states displaced the first, and
\* calculateBIC has scored a two-component model of non-zero log-likelihood.
C18_Witness ==
    /\ selection = "returned"
    /\ Len(k_range) = 2 /\ bestK = k_range[2] /\ k_range[1] # k_range[2]
    /\ bicScore # <<>> /\ bicScore.nMix = 2
    /\ bicScore.logLikelihood = Q(-44, 5) /\ bicScore.nObservations = 5

\* A log-likelihood of a training that failed: -Infinity or NaN.
FitFailed(logLikelihood) == IsNaN(logLikelihood) \/ logLikelihood = NegInf

\* The candidates trained so far whose training did not fail.
Trained == { i \in 1..Len(fitReturned) : ~FitFailed(fitReturned[i]) }

\* C29: a candidate whose fit returned -Infinity or NaN is skipped, neither
\* scored nor kept as the best model; the model findOptimalHMM returns is
\* one whose fit returned another number; and when no candidate trained
\* successfully, an empty k_range included, findOptimalHMM throws and
\* returns nothing.
C29_FailedCandidates ==
    /\ Len(scored) = Cardinality(Trained)
    /\ \A i \in 1..Len(scored) : ~FitFailed(scored[i].logLikelihood)
    /\ bestModel # <<>> =>
            \E i \in Trained :
                k_range[i] = bestK /\ bestModel.nStates = k_range[i]
    /\ selection = "returned" => bestModel # <<>>
    /\ selection # "running" /\ Trained = {} =>
            selection \in {"Error", "TypeError"} /\ bestModel = <<>>

\* The first candidate's fit returned NaN and the second's a number:
\* findOptimalHMM has returned the second.
C29_Witness ==
    /\ selection = "returned"
    /\ Len(k_range) = 2 /\ k_range[1] # k_range[2]
    /\ IsNaN(fitReturned[1]) /\ fitReturned[2] = R(0)
    /\ bestK = k_range[2] /\ Len(scored) = 1

\* --------------------------------------- the causal smoothers on a ramp

\* The longest series given to the smoothers.
MaxRampLen == 5

\* The first price of a series, and the steps from one price to the next.
FirstPrices == {0, 100}
PriceSteps == {-2, 0, 1}

SmootherOptionChoices ==
    { [windowSize |-> o[1], polynomialOrder |-> o[2]] :
        o \in {<<2, 1>>, <<3, 1>>, <<3, 2>>, <<5, 1>>, <<5, 2>>} }

SmootherInit ==
    /\ smootherData = <<>>
    /\ smootherOptions \in SmootherOptionChoices
    /\ smoothedSeries = <<>>
    /\ causalDerivative = <<>>
    /\ CacheIdle
    /\ lusolveTakesMatrix \in BOOLEAN
    /\ causalOptions = <<>> /\ priceHistory = <<>> /\ results = <<>>
    /\ indicatorOptions = <<>>
    /\ PipelineIdle /\ TemperatureIdle /\ PageIdle /\ FilterIdle
    /\ EntropyIdle /\ CholeskyIdle /\ HmmIdle /\ SelectionIdle
    /\ ClassifierIdle

\* The prices of a series of observations.
pricesOf(data) == Force([i \in 1..Len(data) |-> data[i].price])

\* One more observation, and both smoothers applied to the series.
Sample(price) ==
    /\ Len(smootherData) < MaxRampLen
    /\ \E data \in { Append(smootherData, [price |-> price, volume |-> 1]) } :
        /\ smootherData' = data
        /\ smoothedSeries' =
                savitzkyGolayCausal(data, smootherOptions.windowSize,
                                    smootherOptions.polynomialOrder)
        /\ causalDerivative' =
                calculateCausalSgDerivative(pricesOf(data),
                                            smootherOptions.windowSize,
                                            smootherOptions.polynomialOrder,
                                            lusolveTakesMatrix)
    /\ UNCHANGED <<smootherOptions, cacheVars, indicatorOptions, pipelineVars,
                   temperatureVars, pageVars, filterVars, entropyVars,
                   causalVars, choleskyVars, hmmVars, selectionVars,
                   classifierVars>>

SmootherNext ==
    \E price \in IF smootherData = <<>> THEN FirstPrices
                 ELSE { smootherData[Len(smootherData)].price + step :
                            step \in PriceSteps } :
        Sample(price)

SpecSmoother == SmootherInit /\ [][SmootherNext]_vars

\* The last windowSize prices of the series rise by slope per sample.
IsRamp(data, windowSize, slope) ==
    /\ Len(data) >= windowSize
    /\ \A i \in (Len(data) - windowSize + 2)..Len(data) :
            data[i].price - data[i - 1].price = slope

\* C19: on a series whose last windowSize prices are a ramp, with
\* polynomialOrder >= 1, both smoothers give the last price as the smoothed
\* value and the slope of the ramp as the first derivative.
C19_LinearRecovery ==
    \A slope \in PriceSteps :
        \/ smootherOptions.polynomialOrder < 1
        \/ ~IsRamp(smootherData, smootherOptions.windowSize, slope)
        \/ /\ smoothedSeries[Len(smootherData)].smoothed_price =
                    R(smootherData[Len(smootherData)].price)
           /\ smoothedSeries[Len(smootherData)].price_velocity = R(slope)
           /\ causalDerivative =
                    <<[smoothedValue |-> R(smootherData[Len(smootherData)].price),
                       derivative |-> R(slope)]>>

\* ------------------------------ the coefficient caches of the smoothers
\* getCausalSgCoeffs of indicator.ts and of causal-indicator.ts, each with
\* its module's Map, called for window sizes and orders in any order.

\* How many calls are followed.
MaxCacheCalls == 4

CacheWindows == {2, 3}
CacheOrders  == {1, 2}

\* A key that leaves the order out.
cacheKeyOfWindow(windowSize, polynomialOrder) == ToString(windowSize)

\* `${windowSize}-${polynomialOrder}`
cacheKey(windowSize, polynomialOrder) ==
    ToString(windowSize) \o "-" \o ToString(polynomialOrder)

\* Map.set(key, value)
cacheSet(cache, key, value) ==
    [k \in DOMAIN cache \cup {key} |-> IF k = key THEN value ELSE cache[k]]

CacheInit ==
    /\ CacheIdle
    /\ smootherData = <<>> /\ smootherOptions = <<>>
    /\ smoothedSeries = <<>> /\ causalDerivative = <<>>
    /\ lusolveTakesMatrix \in BOOLEAN
    /\ causalOptions = <<>> /\ priceHistory = <<>> /\ results = <<>>
    /\ indicatorOptions = <<>>
    /\ PipelineIdle /\ TemperatureIdle /\ PageIdle /\ FilterIdle
    /\ EntropyIdle /\ CholeskyIdle /\ HmmIdle /\ SelectionIdle
    /\ ClassifierIdle

\* What the calls of getCausalSgCoeffs leave alone.
cacheOthers ==
    <<smootherData, smootherOptions, smoothedSeries, causalDerivative,
      indicatorOptions, pipelineVars, temperatureVars, pageVars, filterVars,
      entropyVars, causalVars, choleskyVars, hmmVars, selectionVars,
      classifierVars>>

\* What a call returned: the file, the arguments, the coefficients (<<>>
\* for null) and whether they came from the Map.
Returned(file, windowSize, polynomialOrder, H, hit) ==
    <<[file |-> file, windowSize |-> windowSize,
       polynomialOrder |-> polynomialOrder, H |-> H, hit |-> hit]>>

\* getCausalSgCoeffs of indicator.ts (lines 47-82): the cached value if
\* the key is present; null, uncached, for an order not below the window;
\* else the coefficients, or null when the inversion throws, stored under
\* the key.
GetCausalSgCoeffs(windowSize, polynomialOrder) ==
    /\ cacheCalls < MaxCacheCalls
    /\ cacheCalls' = cacheCalls + 1
    /\ \E key \in { cacheKey(windowSize, polynomialOrder) } :
        IF key \in DOMAIN sgCoeffsCache
        THEN /\ coeffsReturned' = Returned("indicator.ts", windowSize,
                                           polynomialOrder, sgCoeffsCache[key], TRUE)
             /\ UNCHANGED <<sgCoeffsCache, cacheSets>>
        ELSE IF polynomialOrder >= windowSize
        THEN /\ coeffsReturned' = Returned("indicator.ts", windowSize,
                                           polynomialOrder, <<>>, FALSE)
             /\ UNCHANGED <<sgCoeffsCache, cacheSets>>
        ELSE \E coeffs \in { getCausalSgCoeffs(windowSize, polynomialOrder) } :
             /\ sgCoeffsCache' = cacheSet(sgCoeffsCache, key, coeffs)
             /\ cacheSets' = Append(cacheSets, <<"indicator.ts", key>>)
             /\ coeffsReturned' = Returned("indicator.ts", windowSize,
                                           polynomialOrder, coeffs, FALSE)
    /\ UNCHANGED <<causalSgCoeffsCache, cacheOthers>>

\* getCausalSgCoeffs of causal-indicator.ts (lines 41-81): as above, but a
\* failure of lusolve returns null without storing anything.
GetCausalSgCoeffsByLusolve(windowSize, polynomialOrder) ==
    /\ cacheCalls < MaxCacheCalls
    /\ cacheCalls' = cacheCalls + 1
    /\ \E key \in { cacheKey(windowSize, polynomialOrder) } :
        IF key \in DOMAIN causalSgCoeffsCache
        THEN /\ coeffsReturned' = Returned("causal-indicator.ts", windowSize,
                                           polynomialOrder,
                                           causalSgCoeffsCache[key], TRUE)
             /\ UNCHANGED <<causalSgCoeffsCache, cacheSets>>
        ELSE \E H \in { getCausalSgCoeffsByLusolve(windowSize, polynomialOrder,
                                                    lusolveTakesMatrix) } :
             /\ coeffsReturned' = Returned("causal-indicator.ts", windowSize,
                                           polynomialOrder, H, FALSE)
             /\ IF H = <<>>
                THEN UNCHANGED <<causalSgCoeffsCache, cacheSets>>
                ELSE /\ causalSgCoeffsCache' = cacheSet(causalSgCoeffsCache, key, H)
                     /\ cacheSets' = Append(cacheSets, <<"causal-indicator.ts", key>>)
    /\ UNCHANGED <<sgCoeffsCache, cacheOthers>>

CacheNext ==
    \E windowSize \in CacheWindows, polynomialOrder \in CacheOrders :
        \/ GetCausalSgCoeffs(windowSize, polynomialOrder)
        \/ GetCausalSgCoeffsByLusolve(windowSize, polynomialOrder)

SpecCache == CacheInit /\ [][CacheNext]_vars

\* What a computation without any cache gives for the call recorded in r.
FreshCoefficients(r) ==
    IF r.file = "indicator.ts"
    THEN getCausalSgCoeffs(r.windowSize, r.polynomialOrder)
    ELSE getCausalSgCoeffsByLusolve(r.windowSize, r.polynomialOrder,
                                    lusolveTakesMatrix)

\* The entries of the cache stay as they are in this step.
Kept(cache) ==
    \A key \in DOMAIN cache : key \in DOMAIN cache' /\ cache'[key] = cache[key]

\* C26: the coefficient caches.  Map.set is called at most once per key
\* and file, an entry once written is never changed or removed, and what
\* getCausalSgCoeffs returns, from the cache or not, is what a computation
\* without the cache gives for the window size and order asked for,
\* whatever was asked before.
C26_CoefficientCache ==
    /\ [](\A i, j \in 1..Len(cacheSets) : cacheSets[i] = cacheSets[j] => i = j)
    /\ [](coeffsReturned # <<>> =>
            coeffsReturned[1].H = FreshCoefficients(coeffsReturned[1]))
    /\ [][Kept(sgCoeffsCache) /\ Kept(causalSgCoeffsCache)]_vars

\* C26 witness: with two keys in the cache of indicator.ts, a call was
\* answered from the cache with a coefficient matrix.
C26_Witness ==
    /\ coeffsReturned # <<>>
    /\ coeffsReturned[1].hit
    /\ coeffsReturned[1].H # <<>>
    /\ coeffsReturned[1].file = "indicator.ts"
    /\ Cardinality(DOMAIN sgCoeffsCache) >= 2

\* ------------------------------------- indicator.ts: RegimeClassifier

\* The most points given to a classifier.
MaxHistory == 3

ClassifierKeys == {"potential", "momentum", "entropy", "temperature"}

StatePoint(potential, momentum, entropy, temperature) ==
    [potential |-> potential, momentum |-> momentum, entropy |-> entropy,
     temperature |-> temperature]

\* The points given to the constructor: complete ones, and ones with a
\* null or non-finite dimension.
StatePoints ==
    { StatePoint(R(0), R(2), R(1), R(1)), StatePoint(R(1), R(2), R(-1), Q(1, 2)),
      StatePoint(R(2), R(0), R(1), R(3)), StatePoint(R(1), R(1), R(1), R(1)),
      StatePoint(Null, R(1), R(0), R(0)), StatePoint(R(3), R(1), R(0), PosInf),
      StatePoint(R(5), NaN, R(0), R(0)) }

Histories == UNION { [1..n -> StatePoints] : n \in 0..MaxHistory }

\* The values asked for.
RankedValues == {Null, NaN, PosInf, NegInf, R(-2), R(0), Q(1, 2), R(1), R(2), R(4)}

ClassifierInit ==
    /\ historicalData = <<>>
    /\ sortedValues = <<>>
    /\ percentileRank = <<>>
    /\ indicatorOptions = <<>>
    /\ PipelineIdle /\ TemperatureIdle /\ PageIdle /\ FilterIdle
    /\ EntropyIdle /\ CausalIdle /\ CholeskyIdle /\ HmmIdle
    /\ SelectionIdle /\ SmootherIdle

\* _calculatePercentiles: per key, the finite values of the points kept, in
\* ascending order.
calculatePercentiles(kept) ==
    [key \in ClassifierKeys |->
        SortNumbers(SelectSeq(Force([i \in 1..Len(kept) |-> kept[i][key]]),
                              IsAvailable))]

\* new RegimeClassifier(data): the points with four finite dimensions are
\* kept and their values sorted.
NewRegimeClassifier(data) ==
    /\ sortedValues = <<>>
    /\ \E kept \in { SelectSeq(data,
                        LAMBDA d : \A key \in ClassifierKeys : IsAvailable(d[key])) } :
        /\ historicalData' = kept
        /\ sortedValues' = calculatePercentiles(kept)
    /\ UNCHANGED <<percentileRank, indicatorOptions, pipelineVars,
                   temperatureVars, pageVars, filterVars, entropyVars,
                   causalVars, choleskyVars, hmmVars, selectionVars,
                   smootherVars>>

\* A search that passes over the values equal to the one asked for:
\* arr[mid] <= value
RECURSIVE lowerBoundInclusive(_, _, _, _)
lowerBoundInclusive(arr, value, low, high) ==
    IF low >= high THEN low
    ELSE LET mid == low + (high - low) \div 2
         IN  IF RLe(arr[mid + 1], value)
             THEN lowerBoundInclusive(arr, value, mid + 1, high)
             ELSE lowerBoundInclusive(arr, value, low, mid)

\* The loop of getPercentileRank: low and high are the code's 0-based
\* indices, arr[mid + 1] its arr[mid].
RECURSIVE lowerBound(_, _, _, _)
lowerBound(arr, value, low, high) ==
    IF low >= high THEN low
    ELSE LET mid == low + (high - low) \div 2
         IN  IF RLt(arr[mid + 1], value)
             THEN lowerBound(arr, value, mid + 1, high)
             ELSE lowerBound(arr, value, low, mid)

getPercentileRank(sorted, key, value) ==
    IF IsNull(value) \/ ~IsFin(value) \/ Len(sorted[key]) = 0 THEN R(0)
    ELSE RMul(Q(lowerBound(sorted[key], value, 0, Len(sorted[key])),
                Len(sorted[key])),
              R(100))

GetPercentileRank(key, value) ==
    /\ sortedValues # <<>>
    /\ percentileRank = <<>>
    /\ percentileRank' =
            [key |-> key, value |-> value,
             rank |-> getPercentileRank(sortedValues, key, value)]
    /\ UNCHANGED <<historicalData, sortedValues, indicatorOptions, pipelineVars,
                   temperatureVars, pageVars, filterVars, entropyVars,
                   causalVars, choleskyVars, hmmVars, selectionVars,
                   smootherVars>>

\* runCalculations of the page: the rank of a dimension of the latest point.
RankLatest(key) ==
    /\ Len(historicalData) > 0
    /\ GetPercentileRank(key, historicalData[Len(historicalData)][key])

ClassifierNext ==
    \/ \E data \in Histories : NewRegimeClassifier(data)
    \/ \E key \in ClassifierKeys, value \in RankedValues :
            GetPercentileRank(key, value)
    \/ \E key \in ClassifierKeys : RankLatest(key)

SpecClassifier == ClassifierInit /\ [][ClassifierNext]_vars

\* How many points of the history have a value of the key below v.
StrictlyLess(key, v) ==
    Cardinality({ i \in 1..Len(historicalData) : RLt(historicalData[i][key], v) })

\* C20: a rank is 100 * (number of values of the dimension strictly less
\* than the value) / (number of values of the dimension), which lies in
\* [0, 100], and 0 for a null or non-finite value or an empty history.
C20_PercentileRank ==
    percentileRank # <<>> =>
        /\ RLe(R(0), percentileRank.rank) /\ RLe(percentileRank.rank, R(100))
        /\ percentileRank.rank =
                IF \/ IsNull(percentileRank.value) \/ ~IsFin(percentileRank.value)
                   \/ Len(historicalData) = 0
                THEN R(0)
                ELSE Q(100 * StrictlyLess(percentileRank.key, percentileRank.value),
                       Len(historicalData))

\* A rank strictly between 0 and 100 of a value that the history holds
\* twice.
C20_Witness ==
    /\ percentileRank # <<>>
    /\ Len(historicalData) = 3
    /\ percentileRank.rank = Q(100, 3)
    /\ Cardinality({ i \in 1..3 :
            historicalData[i][percentileRank.key] = percentileRank.value }) = 2

====
